---------------------------- MODULE Spec2Model ----------------------------
(***************************************************************************)
(* Model of the crawl service: the job registry (in-memory map plus the    *)
(* document store), the POST /crawl and GET /jobs/{id} handlers, the       *)
(* per-job executor goroutine with its discovery tiers, startup recovery,  *)
(* the event bus publisher and the content worker pool.                    *)
(***************************************************************************)
EXTENDS Integers, Sequences, FiniteSets, Bags, TLC

(***************************************************************************)
(* Bounds of the model.                                                    *)
(***************************************************************************)
MaxIDLen == 52        \* longest job_id string a client sends
MaxHandlers == 2      \* concurrent POST /crawl handlers
MaxPosts == 2         \* POST /crawl requests the clients send in one behaviour
MaxRestarts == 1      \* process restarts in one behaviour
MaxStack == 3         \* frames of ParseSitemap's call stack kept (the newest)
MaxCalls == 2         \* ProcessContentURLs calls in one behaviour

VARIABLES
  ActiveJobs,     \* config.ActiveJobs: job id -> address of a JobStatus
  heap,           \* the JobStatus records this process allocated, by address
  exec,           \* per address: the executor goroutine started for it
  JobsMutex,      \* config.JobsMutex: 0 free, else the address whose executor write-holds it
  store,          \* the jobs collection: _id -> document
  recWrites,      \* recovery's `go UpdateJobInMongoDB(&job)` goroutines still to run
  crawlReq,       \* POST /crawl handlers
  getReq,         \* the GET /jobs/{id} handler
  lastResp,       \* per job id: the last record a GET /jobs/{id} returned
  RabbitChannel,  \* config.RabbitChannel: "nil", "open" or "closed"
  pending,        \* PublishCrawlEvent's publish goroutines still to run
  bus,            \* the events that reached the exchange, in arrival order
  clock,          \* time.Now(), as a logical clock
  oidCount,       \* primitive.NewObjectID() calls made for job ids
  site,           \* what the remote site answers
  idPool,         \* the job_id strings clients send
  optPool,        \* the request options clients send
  brokerUp,       \* whether InitRabbitMQ succeeds at startup
  postsLeft,      \* POST /crawl requests the clients still send
  restartsLeft,   \* restarts the environment still causes
  loopVarShared,  \* the build's for-range semantics: TRUE before Go 1.22
  JobsCollection, \* config.JobsCollection: "nil" or "set"
  recoveryLog,    \* how the last startup's LoadActiveJobsFromMongoDB ended
  maxWorkers,     \* GlobalPool.maxWorkers
  activeJobs,     \* GlobalPool.activeJobs
  jobs,           \* GlobalPool.jobs, the buffered channel of submitted jobs
  workers,        \* the worker goroutines of the pool that hold a job
  calls,          \* the ProcessContentURLs calls
  batchPool,      \* per POST /content request: the batch sizes it may carry
                  \* and the activeJobs values at which it may arrive
  callsLeft,      \* ProcessContentURLs calls the clients still cause
  batch,          \* one ProcessContentURLs call seen URL by URL
  prober,         \* FindAccessibleURL calls and the hosts that answer them
  wsConn,         \* one GET /ws/{id} connection: handler, reader and consumer
  shutdown,       \* GlobalPool.shutdown and the Shutdown call that closes it
  browserPool,    \* GlobalPool.browserPool
  scrapers,       \* the tryBrowserScraping calls of the content tasks
  extraction      \* one processURL call: what the strategies obtain and what it returns

regVars == <<ActiveJobs, heap, exec, JobsMutex, store, recWrites>>
reqVars == <<crawlReq, getReq, lastResp>>
busVars == <<RabbitChannel, pending, bus, clock>>
bootVars == <<JobsCollection, recoveryLog>>
worldVars == <<site, idPool, optPool, brokerUp, loopVarShared, batchPool>>
haltVars == <<shutdown, browserPool, scrapers>>
poolVars == <<maxWorkers, activeJobs, jobs, workers, calls, callsLeft, batch, haltVars>>
\* what no step of a crawl request, of an executor or of a publisher changes
connVars == <<prober, wsConn>>
tierVars == <<extraction>>
envVars == <<worldVars, bootVars, poolVars, connVars, tierVars>>

vars == <<regVars, reqVars, busVars, envVars, oidCount, postsLeft, restartsLeft>>

(***************************************************************************)
(* Strings.  A Go string is modelled as the sequence of the units that     *)
(* `for _, char := range s` yields: a code point, or -1 for a byte that is *)
(* not valid UTF-8 (range then yields U+FFFD and advances one byte).       *)
(***************************************************************************)
RuneError == 65533

RuneOf(u) == IF u = -1 THEN RuneError ELSE u

\* bytes the unit occupies in the string: what len(s) counts
Utf8Width(u) ==
  IF u = -1 THEN 1
  ELSE IF u < 128 THEN 1
  ELSE IF u < 2048 THEN 2
  ELSE IF u < 65536 THEN 3
  ELSE 4

RECURSIVE ByteLen(_)
ByteLen(s) == IF s = <<>> THEN 0 ELSE Utf8Width(Head(s)) + ByteLen(Tail(s))

isValidJobID_NoUnderscore(jobID) ==
  /\ ~(ByteLen(jobID) < 3 \/ ByteLen(jobID) > 50)
  /\ \A i \in 1..Len(jobID) :
       LET char == RuneOf(jobID[i]) IN
         \/ (char >= 97 /\ char <= 122)
         \/ (char >= 65 /\ char <= 90)
         \/ (char >= 48 /\ char <= 57)
         \/ char = 45

isValidJobID(jobID) ==
  /\ ~(ByteLen(jobID) < 3 \/ ByteLen(jobID) > 50)
  /\ \A i \in 1..Len(jobID) :
       LET char == RuneOf(jobID[i]) IN
         \/ (char >= 97 /\ char <= 122)
         \/ (char >= 65 /\ char <= 90)
         \/ (char >= 48 /\ char <= 57)
         \/ char = 45 \/ char = 95

\* the units the job_id inputs are built from: the ends of every accepted
\* range, their outer neighbours, multi-byte characters and an invalid byte
ProbeUnits == {97, 122, 65, 90, 48, 57, 45, 95,
               96, 123, 64, 91, 47, 58, 44, 46, 94, 32,
               233, 8364, 65533, -1}

Fill(n) == [i \in 1..n |-> 97]

\* strings of every length up to MaxIDLen, all 'a' but for at most one unit
JobIDInputs ==
  {Fill(n) : n \in 0..MaxIDLen} \cup
  {[Fill(n) EXCEPT ![p] = u] : n \in 1..MaxIDLen, p \in {1}, u \in ProbeUnits} \cup
  {[Fill(n) EXCEPT ![n] = u] : n \in 1..MaxIDLen, u \in ProbeUnits}

idA == <<106, 45, 65>>      \* "j-A"
idB == <<106, 95, 66>>      \* "j_B"

\* primitive.NewObjectID().Hex(): 24 hex digits, never the same twice
AutoID(k) == [i \in 1..24 |-> IF i = 24 THEN 48 + k ELSE 48]

(***************************************************************************)
(* Records.                                                                *)
(***************************************************************************)
ErrRestart == "Job interrupted by server restart"
ErrInaccessible == "URL and all fallbacks are inaccessible"

NoResult == [present |-> FALSE, URLs |-> <<>>]

CrawlResult(urls) == [present |-> TRUE, URLs |-> urls]

\* models.JobStatus, as far as the handlers read and write it
JobStatus(id, status, error, result) ==
  [id |-> id, status |-> status, error |-> error, result |-> result]

EmptyMap == [x \in {} |-> 0]

Addrs == 1..Len(heap)

\* the record a GET that finds the id in memory encodes
Deref(id) == heap[ActiveJobs[id]]

(***************************************************************************)
(* Document store operations.  `ok` is whether the store answers in time.  *)
(***************************************************************************)
\* InsertOne: fails on a duplicate _id
SaveJobToMongoDB(st, job, ok) ==
  IF JobsCollection = "set" /\ ok /\ job.id \notin DOMAIN st
  THEN (job.id :> job) @@ st
  ELSE st

\* {"$set": job}: bson omitempty leaves an empty error and a nil result out
\* of the $set, so the stored values of those fields stay
SetFields(old, job) ==
  [id |-> old.id,
   status |-> job.status,
   error |-> IF job.error = "" THEN old.error ELSE job.error,
   result |-> IF job.result.present THEN job.result ELSE old.result]

\* UpdateOne by _id, no upsert
UpdateJobInMongoDB(st, job, ok) ==
  IF JobsCollection = "set" /\ ok /\ job.id \in DOMAIN st
  THEN [st EXCEPT ![job.id] = SetFields(st[job.id], job)]
  ELSE st

\* FindOne by _id
FoundInMongoDB(st, id, ok) == JobsCollection = "set" /\ ok /\ id \in DOMAIN st

(***************************************************************************)
(* The event bus publisher.  PublishCrawlEvent returns at once when the    *)
(* channel is nil or closed; otherwise it starts one goroutine per event   *)
(* that calls Channel.Publish.                                             *)
(***************************************************************************)
\* the Progress texts of the events the executor publishes with Tier "html"
HTMLTierMessages == {"Starting Tier 2", "HTML crawling failed", "HTML crawling added new URLs"}

\* the Progress texts of the events it publishes without a Tier
UntieredMessages ==
  {"Starting crawl...", "URL and all fallbacks failed", "Fallback successful",
   "Starting three-tier crawling", "Applied URL limit", "Crawling page", "Response",
   "Content preview", "Found <a> tags on main page", "Empty link found"}

\* the Tier field the publishing site gives the event
EventTier(type, msg) ==
  IF type = "sitemap_discovered" THEN "sitemap"
  ELSE IF type \in {"completed", "url_discovered"} THEN ""
  ELSE IF msg \in HTMLTierMessages THEN "html"
  ELSE IF msg \in UntieredMessages THEN ""
  ELSE "sitemap"

CrawlEvent(job, type, msg, ts) ==
  [job |-> job, type |-> type, msg |-> msg, ts |-> ts, tier |-> EventTier(type, msg)]

Ev(type, msg) == <<type, msg>>

\* the publish goroutines started for the events evs, created in this order
PublishedNow(job, evs) ==
  {CrawlEvent(job, evs[i][1], evs[i][2], clock + i) : i \in 1..Len(evs)}

PublishCrawlEvent(job, evs) ==
  /\ pending' = IF RabbitChannel = "open" THEN pending \cup PublishedNow(job, evs)
                ELSE pending
  /\ clock' = IF RabbitChannel = "open" THEN clock + Len(evs) ELSE clock
  /\ UNCHANGED <<RabbitChannel, bus>>

\* the goroutine of one event runs: Channel.Publish succeeds or returns an error
PublishGoroutine(ev, ok) ==
  /\ ev \in pending
  /\ pending' = pending \ {ev}
  /\ bus' = IF ok /\ RabbitChannel = "open" THEN Append(bus, ev) ELSE bus
  /\ UNCHANGED <<regVars, reqVars, envVars, RabbitChannel, clock, oidCount,
                 postsLeft, restartsLeft>>

(***************************************************************************)
(* The remote site.  site.probe is FindAccessibleURL's outcome for the     *)
(* seed, site.robots what robots.txt lists, site.found what sitemap        *)
(* discovery finds, site.doc the sitemap documents, site.links the links   *)
(* of the seed page.                                                       *)
(***************************************************************************)
Docs == {"s1", "s2"}

SitemapSet(locs) == [kind |-> "urlset", kids |-> <<>>, locs |-> locs]

SitemapIndex(kids) == [kind |-> "index", kids |-> kids, locs |-> <<>>]

Unparsable == [kind |-> "bad", kids |-> <<>>, locs |-> <<>>]

removeDuplicateURLs_KeepAll(urls) == urls

RECURSIVE removeDuplicateURLs(_)
removeDuplicateURLs(urls) ==
  IF urls = <<>> THEN <<>>
  ELSE LET front == removeDuplicateURLs(SubSeq(urls, 1, Len(urls) - 1))
           last == urls[Len(urls)]
       IN IF \E i \in 1..Len(front) : front[i] = last THEN front
          ELSE Append(front, last)

RECURSIVE NonEmptyLocs(_)
NonEmptyLocs(locs) ==
  IF locs = <<>> THEN <<>>
  ELSE IF Head(locs) = "" THEN NonEmptyLocs(Tail(locs))
  ELSE <<Head(locs)>> \o NonEmptyLocs(Tail(locs))

RECURSIVE Discovered(_)
Discovered(list) ==
  IF list = <<>> THEN <<>>
  ELSE <<Ev("sitemap_discovered", Head(list))>> \o Discovered(Tail(list))

shouldFallbackToHTML_AtMost(currentURLs) == Len(currentURLs) <= 10

shouldFallbackToHTML(currentURLs) == Len(currentURLs) < 10

\* the events ParseRobotsTxt publishes for a job
RobotsEvents ==
  <<Ev("progress", "Checking robots.txt"),
    Ev("progress", IF site.robots # <<>> THEN "Found sitemap(s) in robots.txt"
                   ELSE "No sitemaps found in robots.txt")>>

(***************************************************************************)
(* POST /crawl (HandleCrawl).  The handler suspends between the existence  *)
(* check, made under RLock, and the insertion, made under Lock.            *)
(***************************************************************************)
DefaultMaxURLs == 1000

MaxURLsLimit == 5000

\* the request after the handler's defaults and its clamp of max_urls
WithDefaults(opt) ==
  [opt EXCEPT !.max_urls = IF opt.max_urls = 0 THEN DefaultMaxURLs
                           ELSE IF opt.max_urls > MaxURLsLimit THEN MaxURLsLimit
                           ELSE opt.max_urls]

NoOptions == [max_urls |-> 0, enable_sitemap |-> FALSE, enable_html |-> FALSE,
              enable_headless |-> FALSE]

IdleCrawlReq == [pc |-> "idle", job_id |-> <<>>, sent |-> <<>>, req |-> NoOptions,
                 code |-> 0, why |-> "", existed |-> FALSE]

Executor(req) ==
  [pc |-> "start", req |-> req, err |-> "", result |-> NoResult,
   todo |-> <<>>, stack |-> <<>>, acc |-> <<>>, allURLs |-> <<>>,
   links |-> <<>>, urlList |-> <<>>, stopped |-> FALSE]

NoExec == [Executor(NoOptions) EXCEPT !.pc = "none"]

\* decoding, URL check, defaults, job_id validation and existence check
HandleCrawlCheck(r, hasURL, s, opt) ==
  /\ crawlReq[r].pc = "idle"
  /\ \A q \in 1..(r - 1) : crawlReq[q].pc # "idle"
  /\ postsLeft > 0
  /\ (hasURL /\ s # <<>> /\ isValidJobID(s)) => JobsMutex = 0
  /\ postsLeft' = postsLeft - 1
  /\ crawlReq' = [crawlReq EXCEPT ![r] =
       LET q == [IdleCrawlReq EXCEPT !.sent = s, !.req = WithDefaults(opt)] IN
       IF ~hasURL
       THEN [q EXCEPT !.code = 400, !.why = "URL is required"]
       ELSE IF s = <<>>
       THEN [q EXCEPT !.pc = "checked", !.job_id = AutoID(oidCount + 1)]
       ELSE IF ~isValidJobID(s)
       THEN [q EXCEPT !.code = 400, !.why = "Invalid job_id format"]
       ELSE IF s \in DOMAIN ActiveJobs
       THEN [q EXCEPT !.code = 409, !.why = "Job ID already exists", !.existed = TRUE]
       ELSE [q EXCEPT !.pc = "checked", !.job_id = s, !.existed = s \in DOMAIN store]]
  /\ oidCount' = IF hasURL /\ s = <<>> THEN oidCount + 1 ELSE oidCount
  /\ UNCHANGED <<regVars, getReq, lastResp, busVars, envVars, restartsLeft>>

\* SaveJobToMongoDB (its error is only logged), the insertion under Lock,
\* the start of the executor goroutine and the 200 response
HandleCrawlCreate(r, ok) ==
  /\ crawlReq[r].pc = "checked"
  /\ JobsMutex = 0
  /\ LET id == crawlReq[r].job_id
         job == JobStatus(id, "running", "", NoResult)
     IN /\ store' = SaveJobToMongoDB(store, job, ok)
        /\ heap' = Append(heap, job)
        /\ exec' = Append(exec, Executor(crawlReq[r].req))
        /\ ActiveJobs' = (id :> (Len(heap) + 1)) @@ ActiveJobs
  /\ crawlReq' = [crawlReq EXCEPT ![r].pc = "idle", ![r].code = 200,
                                  ![r].why = "accepted"]
  /\ UNCHANGED <<JobsMutex, recWrites, getReq, lastResp, busVars, envVars,
                 oidCount, postsLeft, restartsLeft>>

(***************************************************************************)
(* GET /jobs/{id} (HandleJobStatus): the pointer is read under RLock, the  *)
(* record it points to is encoded after RUnlock.                           *)
(***************************************************************************)
IdleGetReq == [pc |-> "idle", job_id |-> <<>>, addr |-> 0, afterTerminal |-> FALSE]

\* an event that announces the end of a job
IsTerminalEvent(ev) ==
  \/ ev.type = "completed"
  \/ ev.type = "error" /\ ev.msg = "URL and all fallbacks failed"

TerminalOnBus(id) ==
  \E i \in 1..Len(bus) : bus[i].job = id /\ IsTerminalEvent(bus[i])

\* what the client sees of a returned record
Response(job, after) ==
  [id |-> job.id, status |-> job.status, error |-> job.error,
   hasResult |-> job.result.present, afterTerminal |-> after]

GetLookup(id, ok) ==
  /\ getReq.pc = "idle"
  /\ JobsMutex = 0
  /\ IF id \in DOMAIN ActiveJobs
     THEN /\ getReq' = [pc |-> "encode", job_id |-> id, addr |-> ActiveJobs[id],
                        afterTerminal |-> TerminalOnBus(id)]
          /\ UNCHANGED lastResp
     ELSE /\ getReq' = IdleGetReq
          /\ lastResp' = IF FoundInMongoDB(store, id, ok)
                         THEN (id :> Response(store[id], TerminalOnBus(id))) @@ lastResp
                         ELSE lastResp
  /\ UNCHANGED <<regVars, crawlReq, busVars, envVars, oidCount, postsLeft,
                 restartsLeft>>

GetEncode ==
  /\ getReq.pc = "encode"
  /\ lastResp' = (getReq.job_id :> Response(heap[getReq.addr], getReq.afterTerminal))
                   @@ lastResp
  /\ getReq' = IdleGetReq
  /\ UNCHANGED <<regVars, crawlReq, busVars, envVars, oidCount, postsLeft,
                 restartsLeft>>

(***************************************************************************)
(* The executor goroutine of HandleCrawl and CrawlWebsiteWithTiers.        *)
(***************************************************************************)
enableSitemap(req) ==
  req.enable_sitemap \/ (~req.enable_sitemap /\ ~req.enable_html /\ ~req.enable_headless)

enableHTML(req) ==
  req.enable_html \/ (~req.enable_sitemap /\ ~req.enable_html /\ ~req.enable_headless)

ExecFrame == <<ActiveJobs, JobsMutex, store, recWrites, reqVars, envVars,
               oidCount, postsLeft, restartsLeft>>

\* the initial progress event
ExecStart(a) ==
  /\ exec[a].pc = "start"
  /\ exec' = [exec EXCEPT ![a].pc = "probe"]
  /\ PublishCrawlEvent(heap[a].id, <<Ev("progress", "Starting crawl...")>>)
  /\ UNCHANGED <<heap, ExecFrame>>

\* FindAccessibleURL, and on its failure the robots.txt fallback
ExecProbe(a) ==
  /\ exec[a].pc = "probe"
  /\ LET failed == site.probe = "fail"
         lost == failed /\ site.robots = <<>>
         evs == IF ~failed
                THEN (IF site.probe = "fallback"
                      THEN <<Ev("progress", "Fallback successful")>> ELSE <<>>)
                     \o <<Ev("progress", "Starting three-tier crawling")>>
                ELSE <<Ev("progress", "trying robots.txt fallback")>> \o RobotsEvents
                     \o (IF lost THEN <<Ev("error", "URL and all fallbacks failed")>>
                         ELSE <<Ev("progress", "Found sitemap(s) via robots.txt fallback"),
                                Ev("progress", "Starting three-tier crawling")>>)
     IN /\ exec' = [exec EXCEPT ![a].pc = IF lost THEN "lock" ELSE "tier1",
                                ![a].err = IF lost THEN ErrInaccessible ELSE ""]
        /\ PublishCrawlEvent(heap[a].id, evs)
  /\ UNCHANGED <<heap, ExecFrame>>

\* tier 1 up to the list of sitemaps to parse
ExecTier1(a) ==
  /\ exec[a].pc = "tier1"
  /\ LET on == enableSitemap(exec[a].req)
         viaRobots == site.probe = "fail"
         list == IF viaRobots THEN site.robots ELSE site.found
         evs == IF ~on THEN <<>>
                ELSE <<Ev("tier_switch", "Starting Tier 1")>>
                     \o (IF viaRobots
                         THEN RobotsEvents \o <<Ev("progress", "Using sitemaps from robots.txt")>>
                         ELSE <<Ev("progress", "Discovering sitemaps")>>)
                     \o Discovered(list)
                     \o (IF list = <<>> THEN <<Ev("progress", "No sitemaps found")>> ELSE <<>>)
     IN /\ exec' = [exec EXCEPT ![a].pc = IF on /\ list # <<>> THEN "parse" ELSE "tier2",
                                ![a].todo = IF on THEN list ELSE <<>>]
        /\ PublishCrawlEvent(heap[a].id, evs)
  /\ UNCHANGED <<heap, ExecFrame>>

\* ParseSitemap's call stack; only the newest MaxStack frames are kept.  A
\* frame starts before its HTTP request; next is the child the loop is at
Frame(doc) == [doc |-> doc, body |-> "none", next |-> 1, urls |-> <<>>]

Push(stack, f) ==
  IF Len(stack) < MaxStack THEN Append(stack, f) ELSE Append(Tail(stack), f)

\* CrawlWithSitemapsAndFallback calls ParseSitemap on the next sitemap
ParseCall(a) ==
  /\ exec[a].pc = "parse"
  /\ exec[a].stack = <<>>
  /\ exec[a].todo # <<>>
  /\ exec' = [exec EXCEPT ![a].stack = <<Frame(Head(exec[a].todo))>>,
                          ![a].todo = Tail(exec[a].todo)]
  /\ PublishCrawlEvent(heap[a].id, <<Ev("progress", "Parsing sitemap")>>)
  /\ UNCHANGED <<heap, ExecFrame>>

\* the running ParseSitemap call fetches and reads its document
ParseFetch(a) ==
  /\ exec[a].pc = "parse"
  /\ exec[a].stack # <<>>
  /\ LET n == Len(exec[a].stack)
         f == exec[a].stack[n]
         d == site.doc[f.doc]
     IN /\ f.body = "none"
        /\ exec' = [exec EXCEPT ![a].stack[n].body = "read"]
        /\ PublishCrawlEvent(heap[a].id,
             IF d.kind = "index" /\ d.kids # <<>>
             THEN <<Ev("progress", "Found sitemap index")>> ELSE <<>>)
  /\ UNCHANGED <<heap, ExecFrame>>

\* the running ParseSitemap call recurses into its next child
ParseRecurse(a) ==
  /\ exec[a].pc = "parse"
  /\ exec[a].stack # <<>>
  /\ LET n == Len(exec[a].stack)
         f == exec[a].stack[n]
         d == site.doc[f.doc]
     IN /\ f.body = "read"
        /\ d.kind = "index" /\ f.next <= Len(d.kids)
        /\ exec' = [exec EXCEPT ![a].stack =
                      Push([exec[a].stack EXCEPT ![n].next = f.next + 1],
                           Frame(d.kids[f.next]))]
        /\ PublishCrawlEvent(heap[a].id, <<Ev("progress", "Parsing sitemap")>>)
  /\ UNCHANGED <<heap, ExecFrame>>

\* the running ParseSitemap call returns to its caller
ParseReturn(a) ==
  /\ exec[a].pc = "parse"
  /\ exec[a].stack # <<>>
  /\ LET n == Len(exec[a].stack)
         f == exec[a].stack[n]
         d == site.doc[f.doc]
         isIndex == d.kind = "index" /\ d.kids # <<>>
         failed == d.kind = "bad" \/ (d.kind = "index" /\ d.kids = <<>>)
         urls == IF isIndex THEN f.urls ELSE NonEmptyLocs(d.locs)
         rest == SubSeq(exec[a].stack, 1, n - 1)
     IN /\ f.body = "read"
        /\ isIndex => f.next > Len(d.kids)
        /\ exec' = [exec EXCEPT
             ![a].stack = IF n > 1 /\ ~failed
                          THEN [rest EXCEPT ![n - 1].urls = @ \o urls]
                          ELSE rest,
             ![a].acc = IF n = 1 /\ ~failed THEN @ \o urls ELSE @]
        /\ PublishCrawlEvent(heap[a].id,
             IF failed
             THEN (IF n = 1 THEN <<Ev("error", "Failed to parse sitemap")>> ELSE <<>>)
             ELSE IF isIndex THEN <<>>
             ELSE <<Ev("progress", "Extracted URLs from sitemap")>>)
  /\ UNCHANGED <<heap, ExecFrame>>

\* every discovered sitemap is parsed: tier 1 ends
ParseDone(a) ==
  /\ exec[a].pc = "parse"
  /\ exec[a].stack = <<>>
  /\ exec[a].todo = <<>>
  /\ exec' = [exec EXCEPT ![a].pc = "tier2",
                          ![a].allURLs = @ \o removeDuplicateURLs(exec[a].acc)]
  /\ PublishCrawlEvent(heap[a].id, <<Ev("progress", "Sitemap crawling complete")>>)
  /\ UNCHANGED <<heap, ExecFrame>>


\* tier 2 up to the walker's first request; CrawlWithHTML probes the seed again
ExecTier2(a) ==
  /\ exec[a].pc = "tier2"
  /\ LET on == enableHTML(exec[a].req) /\ shouldFallbackToHTML(exec[a].allURLs)
         failed == site.probe2 = "fail"
         evs == IF ~on THEN <<>>
                ELSE <<Ev("tier_switch", "Starting Tier 2")>>
                     \o (IF failed THEN <<Ev("error", "HTML crawling failed")>>
                         ELSE <<Ev("progress", "Crawling page"),
                                Ev("progress", "Response"),
                                Ev("progress", "Content preview"),
                                Ev("progress", "Found <a> tags on main page")>>)
     IN /\ exec' = [exec EXCEPT ![a].pc = IF on /\ ~failed THEN "walk" ELSE "compose",
                                ![a].links = IF on /\ ~failed THEN site.links ELSE <<>>,
                                ![a].urlList = <<>>,
                                ![a].stopped = FALSE]
        /\ PublishCrawlEvent(heap[a].id, evs)
  /\ UNCHANGED <<heap, ExecFrame>>

InSeq(x, s) == \E i \in 1..Len(s) : s[i] = x

\* a host name, with or without the www. prefix
Host(www, name) == [www |-> www, name |-> name]

\* the host of the seed URL, which is the host of the URL the probe accepts
SeedHost == Host(FALSE, "example.com")

\* the hosts of the URLs the sites serve: "w1" is on the seed's www. twin,
\* "x1" on a foreign host, every other URL on the seed's host
HostOf(url) ==
  IF url = "x1" THEN Host(FALSE, "other.example")
  ELSE IF url = "w1" THEN Host(TRUE, "example.com")
  ELSE SeedHost

\* allowedDomains: the base domain, and the base domain with www. removed if
\* it has the prefix, added if not
allowedDomains(baseDomain) == {baseDomain, [baseDomain EXCEPT !.www = ~@]}

\* the walker's a[href] callback on the next anchor of the seed page; the
\* pages it links to carry no anchors of their own
WalkLink(a) ==
  /\ exec[a].pc = "walk"
  /\ exec[a].links # <<>>
  /\ LET e == exec[a]
         link == Head(e.links)
         maxURLs == e.req.max_urls
         isAllowed == HostOf(link) \in allowedDomains(SeedHost)
         take == /\ link # "" /\ isAllowed
                 /\ ~InSeq(link, e.urlList) /\ Len(e.urlList) < maxURLs /\ ~e.stopped
         full == take /\ Len(e.urlList) + 1 >= maxURLs
     IN /\ exec' = [exec EXCEPT ![a].links = Tail(e.links),
                                ![a].urlList = IF take THEN Append(e.urlList, link) ELSE @,
                                ![a].stopped = IF full THEN TRUE ELSE @]
        /\ PublishCrawlEvent(heap[a].id,
             IF link = "" THEN <<Ev("progress", "Empty link found")>>
             ELSE IF take /\ ~full THEN <<Ev("url_discovered", link)>>
             ELSE <<>>)
  /\ UNCHANGED <<heap, ExecFrame>>

\* c.Wait() returns; tier 2 merges and deduplicates
WalkDone(a) ==
  /\ exec[a].pc = "walk"
  /\ exec[a].links = <<>>
  /\ exec' = [exec EXCEPT ![a].pc = "compose",
                          ![a].allURLs = removeDuplicateURLs(@ \o exec[a].urlList)]
  /\ PublishCrawlEvent(heap[a].id, <<Ev("progress", "HTML crawling added new URLs")>>)
  /\ UNCHANGED <<heap, ExecFrame>>

\* the max_urls cap, the CrawlResult and the completed event of CrawlWebsiteWithTiers
ExecCompose(a) ==
  /\ exec[a].pc = "compose"
  /\ LET maxURLs == exec[a].req.max_urls
         cut == maxURLs > 0 /\ Len(exec[a].allURLs) > maxURLs
         urls == IF cut THEN SubSeq(exec[a].allURLs, 1, maxURLs) ELSE exec[a].allURLs
     IN /\ exec' = [exec EXCEPT ![a].pc = "lock",
                                ![a].allURLs = urls,
                                ![a].result = CrawlResult(urls)]
        /\ PublishCrawlEvent(heap[a].id,
             (IF cut THEN <<Ev("progress", "Applied URL limit")>> ELSE <<>>)
             \o <<Ev("completed", "Three-tier crawling completed")>>)
  /\ UNCHANGED <<heap, ExecFrame>>

\* config.JobsMutex.Lock() in the executor
ExecLock(a) ==
  /\ exec[a].pc = "lock"
  /\ JobsMutex = 0
  /\ JobsMutex' = a
  /\ exec' = [exec EXCEPT ![a].pc = "status"]
  /\ UNCHANGED <<ActiveJobs, heap, store, recWrites, reqVars, busVars, envVars,
                 oidCount, postsLeft, restartsLeft>>

ExecSetStatus_FailOnEmpty(a) ==
  /\ exec[a].pc = "status"
  /\ heap' = [heap EXCEPT ![a].status =
                IF exec[a].err # "" \/ exec[a].result.URLs = <<>> THEN "failed"
                ELSE "completed"]
  /\ exec' = [exec EXCEPT ![a].pc = "detail"]
  /\ UNCHANGED <<ActiveJobs, JobsMutex, store, recWrites, reqVars, busVars, envVars,
                 oidCount, postsLeft, restartsLeft>>

\* job.Status = "failed" or "completed"
ExecSetStatus(a) ==
  /\ exec[a].pc = "status"
  /\ heap' = [heap EXCEPT ![a].status = IF exec[a].err # "" THEN "failed" ELSE "completed"]
  /\ exec' = [exec EXCEPT ![a].pc = "detail"]
  /\ UNCHANGED <<ActiveJobs, JobsMutex, store, recWrites, reqVars, busVars, envVars,
                 oidCount, postsLeft, restartsLeft>>

\* job.Error = err.Error(), or job.Result = result and the handler's completed event
ExecSetDetail(a) ==
  /\ exec[a].pc = "detail"
  /\ heap' = IF exec[a].err # ""
             THEN [heap EXCEPT ![a].error = exec[a].err]
             ELSE [heap EXCEPT ![a].result = exec[a].result]
  /\ exec' = [exec EXCEPT ![a].pc = "update"]
  /\ PublishCrawlEvent(heap[a].id,
       IF exec[a].err # "" THEN <<>> ELSE <<Ev("completed", "Crawl completed")>>)
  /\ UNCHANGED ExecFrame

\* services.UpdateJobInMongoDB(job), its error only logged
ExecStoreUpdate(a, ok) ==
  /\ exec[a].pc = "update"
  /\ store' = UpdateJobInMongoDB(store, heap[a], ok)
  /\ exec' = [exec EXCEPT ![a].pc = "unlock"]
  /\ UNCHANGED <<ActiveJobs, heap, JobsMutex, recWrites, reqVars, busVars, envVars,
                 oidCount, postsLeft, restartsLeft>>

\* config.JobsMutex.Unlock(); the goroutine ends
ExecUnlock(a) ==
  /\ exec[a].pc = "unlock"
  /\ JobsMutex' = 0
  /\ exec' = [exec EXCEPT ![a].pc = "done"]
  /\ UNCHANGED <<ActiveJobs, heap, store, recWrites, reqVars, busVars, envVars,
                 oidCount, postsLeft, restartsLeft>>


(***************************************************************************)
(* The content worker pool.                                                *)
(***************************************************************************)
MinWorkers == 5
JobsPerWorker == 2
ReducedShare == 4
BatchUnit == 10
MinIdle == 2

\* what the c-th POST /content may be
Arrivals(sizes, arrival) == [sizes |-> sizes, arrival |-> arrival]

\* one URL more than the job channel holds
Overfull == JobsPerWorker * MinWorkers + 1

BatchSizes == 0..Overfull

\* per call: how many worker goroutines hold one of its jobs, by their position
\* in processJob; the other workers wait at their select.  The jobs of one
\* batch are told apart only by the batch they belong to.
NoWorkers == [taken |-> 0, active |-> 0, sent |-> 0]

RECURSIVE Sum3(_)
Sum3(ws) ==
  IF ws = <<>> THEN 0
  ELSE Head(ws).taken + Head(ws).active + Head(ws).sent + Sum3(Tail(ws))

IdleCall ==
  [pc |-> "idle", n |-> 0, next |-> 0, collected |-> 0, resultCh |-> 0,
   running |-> 0, finished |-> 0, active |-> 0, admitted |-> FALSE, exit |-> ""]

\* the call that is seen URL by URL, before it is made: jobs are the Job
\* values it has put on wp.jobs, held the ones inside processJob, resultCh its
\* result channel, results its result slice with the writes each slot has had,
\* gor the goroutines of processWithReducedConcurrency
NoBatch ==
  [pc |-> "idle", urls |-> <<>>, next |-> 0, jobs |-> <<>>, held |-> {},
   resultCh |-> <<>>, results |-> <<>>, collected |-> 0, gor |-> <<>>, exit |-> ""]

(***************************************************************************)
(* The browser pool.  A browser is the number of the createBrowser call    *)
(* that launched it; `launched` counts those calls.                        *)
(***************************************************************************)
PoolShare == 2

NewBrowserPool(maxSize) ==
  [instances |-> <<>>, maxSize |-> maxSize, launched |-> 0]

BrowserInstance(browser) == [browser |-> browser, inUse |-> TRUE]

\* the position of the first instance of the pool that is not in use, or 0
FirstIdle(bp) ==
  LET idle == {i \in 1..Len(bp.instances) : ~bp.instances[i].inUse}
  IN IF idle = {} THEN 0 ELSE CHOOSE i \in idle : \A j \in idle : i <= j

\* Get with the cap test left out
BrowserPoolGet_NoCap(bp, ok) ==
  LET i == FirstIdle(bp)
  IN IF i # 0
     THEN [pool |-> [bp EXCEPT !.instances[i].inUse = TRUE],
           browser |-> bp.instances[i].browser, err |-> ""]
     ELSE IF ok
          THEN [pool |-> [bp EXCEPT !.instances = Append(@, BrowserInstance(bp.launched + 1)),
                                    !.launched = @ + 1],
                browser |-> bp.launched + 1, err |-> ""]
          ELSE [pool |-> bp, browser |-> 0, err |-> "create failed"]

\* (bp *BrowserPool) Get(): the pool it leaves, and the browser or the error
\* it returns; `ok` is whether createBrowser succeeds
BrowserPoolGet(bp, ok) ==
  LET i == FirstIdle(bp)
  IN IF i # 0
     THEN [pool |-> [bp EXCEPT !.instances[i].inUse = TRUE],
           browser |-> bp.instances[i].browser, err |-> ""]
     ELSE IF Len(bp.instances) < bp.maxSize
          THEN IF ok
               THEN [pool |-> [bp EXCEPT !.instances = Append(@, BrowserInstance(bp.launched + 1)),
                                         !.launched = @ + 1],
                     browser |-> bp.launched + 1, err |-> ""]
               ELSE [pool |-> bp, browser |-> 0, err |-> "create failed"]
          ELSE [pool |-> bp, browser |-> 0, err |-> "browser pool exhausted"]

\* (bp *BrowserPool) Release(browser)
BrowserPoolRelease(bp, browser) ==
  LET hit == {i \in 1..Len(bp.instances) : bp.instances[i].browser = browser}
  IN IF hit = {} THEN bp
     ELSE [bp EXCEPT !.instances[CHOOSE i \in hit : \A j \in hit : i <= j].inUse = FALSE]

\* (bp *BrowserPool) Shutdown(): every browser of the pool is closed and the
\* pool forgets them
BrowserPoolShutdown(bp) == [bp EXCEPT !.instances = <<>>]

\* the content tasks, by who started them: a worker's processJob or a
\* goroutine of processWithReducedConcurrency
Kinds == {"worker", "reduced"}

\* leases: the browsers the running tryBrowserScraping calls hold, as a bag of
\* <<kind, call, browser>>; done: per kind and call, the tasks whose
\* tryBrowserScraping has returned
NoScrapers ==
  [leases |-> EmptyBag, done |-> [k \in Kinds |-> [c \in 1..MaxCalls |-> 0]]]

\* no processURL call is under observation
NoExtraction == [pc |-> "idle"]

\* pc: "none" before Shutdown is called, "waiting" once it closed the shutdown
\* channel, "done" once it closed the browser pool; exited: the workers that
\* returned; submitted: the number of jobs that had been put on the job
\* channel when Shutdown was called
NoShutdown == [pc |-> "none", exited |-> 0, submitted |-> 0]

\* the pool as InitializeGlobalPool leaves it, for the worker count it computed
InitializeGlobalPool ==
  /\ activeJobs = 0
  /\ jobs = <<>>
  /\ workers = [c \in 1..MaxCalls |-> NoWorkers]
  /\ calls = [c \in 1..MaxCalls |-> IdleCall]
  /\ batch = NoBatch
  /\ shutdown = NoShutdown
  /\ browserPool = NewBrowserPool(maxWorkers \div PoolShare)
  /\ scrapers = NoScrapers
  /\ extraction = NoExtraction

(***************************************************************************)
(* The reachability prober.  A URL string is kept as the scheme it is      *)
(* written with and the labels of its host; "%" stands for a string that   *)
(* url.Parse rejects.  url.Parse lower-cases the scheme and URL.String()   *)
(* writes the lower-cased one.                                             *)
(***************************************************************************)
URLStr(scheme, host) == [scheme |-> scheme, host |-> host]

BadURL == URLStr("%", <<>>)

ToLower(scheme) == IF scheme = "HTTP" THEN "http" ELSE scheme

\* url.Parse(originalURL): the parsed URL, for a string it accepts
Parse(urlStr) == [Scheme |-> ToLower(urlStr.scheme), Host |-> urlStr.host]

\* (*url.URL).String()
String(parsed) == URLStr(parsed.Scheme, parsed.Host)

\* strings.HasPrefix(host, "www.")
HasWWWPrefix(host) == Len(host) >= 2 /\ host[1] = "www"

GenerateFallbackURLs(originalURL) ==
  IF originalURL = BadURL THEN <<>>
  ELSE LET parsed == Parse(originalURL)
           host == parsed.Host
           other == IF HasWWWPrefix(host) THEN Tail(host) ELSE <<"www">> \o host
       IN <<String([parsed EXCEPT !.Host = other])>>
          \o (IF parsed.Scheme = "http"
              THEN <<String([parsed EXCEPT !.Scheme = "https"]),
                     String([parsed EXCEPT !.Scheme = "https", !.Host = other])>>
              ELSE <<>>)

\* CheckURLAccessibility(urlStr) = nil, for the hosts that answer
CheckURLAccessibility(urlStr, answering) ==
  urlStr # BadURL /\ urlStr \in answering

Attempts_OriginalLast(originalURL) ==
  GenerateFallbackURLs(originalURL) \o <<originalURL>>

\* the URLs FindAccessibleURL tries, in the order it tries them
Attempts(originalURL) == <<originalURL>> \o GenerateFallbackURLs(originalURL)

URLFallback(originalURL) ==
  [OriginalURL |-> originalURL, FallbackURL |-> originalURL, Success |-> FALSE,
   Error |-> ""]

\* no call made yet: input is the URL the first call gets, answering the URLs
\* that CheckURLAccessibility finds accessible, returned the results so far
NoProber ==
  [input |-> BadURL, answering |-> {}, pc |-> "idle", next |-> 0,
   info |-> URLFallback(BadURL), returned |-> <<>>]

ProberFrame == <<tierVars, regVars, reqVars, busVars, worldVars, bootVars, poolVars, oidCount,
                 postsLeft, restartsLeft, wsConn>>

FindAccessibleURL(originalURL) ==
  /\ prober.pc = "idle"
  /\ prober' = [prober EXCEPT !.pc = "trying", !.next = 1,
                              !.info = URLFallback(originalURL)]
  /\ UNCHANGED ProberFrame

\* one CheckURLAccessibility call and what follows it
FindCheck ==
  /\ prober.pc = "trying"
  /\ LET tries == Attempts(prober.info.OriginalURL)
         url == tries[prober.next]
         failed == IF prober.next = 1 THEN [prober.info EXCEPT !.Error = "inaccessible"]
                   ELSE prober.info
     IN IF CheckURLAccessibility(url, prober.answering)
        THEN prober' = [prober EXCEPT
                          !.pc = "idle",
                          !.info = [@ EXCEPT !.FallbackURL = url, !.Success = TRUE],
                          !.returned = Append(@, [prober.info EXCEPT
                                                    !.FallbackURL = url,
                                                    !.Success = TRUE])]
        ELSE IF prober.next < Len(tries)
        THEN prober' = [prober EXCEPT !.next = @ + 1, !.info = failed]
        ELSE prober' = [prober EXCEPT !.pc = "idle", !.info = failed,
                                      !.returned = Append(@, failed)]
  /\ UNCHANGED ProberFrame

\* the connection HandleWebSocket has upgraded for the job id of its path.
\* pc is the handler's position, open whether the client still holds its end,
\* bound the routing keys of the connection's queue, boundAt what the exchange
\* had routed when they were bound, cursor the last message of the exchange
\* the consumer looked at, inflight the delivery the consumer goroutine holds,
\* eventChan and stopChan the two channels, closed whether eventChan is closed,
\* stopSent whether a stop signal was ever sent, written the events written to
\* the client, acked, requeued and dropped the deliveries settled with Ack,
\* Nack(requeue) and Nack(no requeue).  Messages are named by their place on
\* the exchange.
Socket(job) ==
  [pc |-> "upgraded", job |-> job, open |-> TRUE, bound |-> {}, boundAt |-> 0,
   cursor |-> 0, consumer |-> "none", inflight |-> 0, eventChan |-> <<>>,
   closed |-> FALSE, stopChan |-> 0, stopSent |-> FALSE, reader |-> "none",
   written |-> <<>>, acked |-> {}, requeued |-> {}, dropped |-> {}, frames |-> <<>>]

\* a message the handler composes itself: "connected", or "error" with the
\* reason in its Error field
HandlerMessage(type, job, text) == [Type |-> type, JobID |-> job, Text |-> text, Tier |-> ""]

\* the WebSocketMessage the handler's loop builds from an event: Type, JobID,
\* URL, Depth, Progress, Timestamp, Total, PageCount and Error are copied
\* (msg stands for the payload fields), Tier is left at its zero value
WebSocketMessage(event) ==
  [Type |-> event.type, JobID |-> event.job, Text |-> event.msg, Timestamp |-> event.ts,
   Tier |-> ""]

\* conn.WriteJSON of one of the handler's error messages: it reaches the
\* client while the client is there
WriteError(c, text) ==
  IF c.open THEN Append(c.frames, HandlerMessage("error", c.job, text)) ELSE c.frames

\* the connection before a client opens it
NoSocket == [Socket(<<>>) EXCEPT !.pc = "none"]

NoConnections ==
  /\ prober = NoProber
  /\ wsConn = NoSocket

(***************************************************************************)
(* Process restart: the memory of the old process is lost, StartAPIServer  *)
(* runs InitMongoDB, LoadActiveJobsFromMongoDB and InitRabbitMQ.           *)
(***************************************************************************)
\* Find({"status": "running"})
RunningIDs(st) == {id \in DOMAIN st : st[id].status = "running"}

\* the orders in which the cursor can return the documents of S
Orders(S) ==
  {o \in [1..Cardinality(S) -> S] : \A i, j \in 1..Cardinality(S) : o[i] = o[j] => i = j}

Recovered(doc) == JobStatus(doc.id, "failed", ErrRestart, doc.result)

\* what `go UpdateJobInMongoDB(&job)` of iteration k can read through &job:
\* with one variable per iteration the record of iteration k; with one
\* variable for the whole loop, whatever the loop has made of it by then
Snapshots(st, o, k) ==
  IF loopVarShared
  THEN {Recovered(st[o[k]])}
       \cup UNION {{st[o[m]],
                    [st[o[m]] EXCEPT !.status = "failed"],
                    Recovered(st[o[m]])} : m \in (k + 1)..Len(o)}
  ELSE {Recovered(st[o[k]])}

LoadActiveJobsFromMongoDB(o, w) ==
  /\ heap' = IF loopVarShared
             THEN (IF Len(o) = 0 THEN <<>> ELSE <<Recovered(store[o[Len(o)]])>>)
             ELSE [k \in 1..Len(o) |-> Recovered(store[o[k]])]
  /\ ActiveJobs' = [id \in {o[k] : k \in 1..Len(o)} |->
                      IF loopVarShared THEN 1
                      ELSE CHOOSE k \in 1..Len(o) : o[k] = id]
  /\ recWrites' = {w[k] : k \in 1..Len(o)}

Restart(mongoUp, findOK) ==
  /\ restartsLeft > 0
  /\ restartsLeft' = restartsLeft - 1
  /\ JobsCollection' = IF mongoUp THEN "set" ELSE "nil"
  /\ IF mongoUp /\ findOK
     THEN /\ \E o \in Orders(RunningIDs(store)) :
               \E w \in [1..Len(o) -> UNION {Snapshots(store, o, k) : k \in 1..Len(o)}] :
                  /\ \A k \in 1..Len(o) : w[k] \in Snapshots(store, o, k)
                  /\ LoadActiveJobsFromMongoDB(o, w)
          /\ recoveryLog' = "recovered"
     ELSE /\ heap' = <<>>
          /\ ActiveJobs' = EmptyMap
          /\ recWrites' = {}
          /\ recoveryLog' = IF mongoUp THEN "find failed" ELSE "skipped"
  /\ exec' = [a \in 1..Len(heap') |-> NoExec]
  /\ JobsMutex' = 0
  /\ crawlReq' = [r \in 1..MaxHandlers |-> IdleCrawlReq]
  /\ getReq' = IdleGetReq
  /\ RabbitChannel' = IF brokerUp THEN "open" ELSE "nil"
  /\ pending' = {}
  /\ activeJobs' = 0
  /\ jobs' = <<>>
  /\ workers' = [c \in 1..MaxCalls |-> NoWorkers]
  /\ calls' = [c \in 1..MaxCalls |-> IdleCall]
  /\ batch' = NoBatch
  /\ shutdown' = NoShutdown
  /\ browserPool' = NewBrowserPool(maxWorkers \div PoolShare)
  /\ scrapers' = NoScrapers
  /\ extraction' = NoExtraction
  /\ wsConn' = NoSocket
  /\ UNCHANGED <<store, lastResp, bus, clock, oidCount, postsLeft, worldVars, prober,
                 maxWorkers, callsLeft>>

\* one of recovery's store writes runs
RecoveryWrite(job, ok) ==
  /\ job \in recWrites
  /\ recWrites' = recWrites \ {job}
  /\ store' = UpdateJobInMongoDB(store, job, ok)
  /\ UNCHANGED <<ActiveJobs, heap, exec, JobsMutex, reqVars, busVars, envVars,
                 oidCount, postsLeft, restartsLeft>>


(***************************************************************************)
(* The environment: remote sites, and what clients send.                   *)
(***************************************************************************)
Site(probe, probe2, robots, found, doc, links) ==
  [probe |-> probe, probe2 |-> probe2, robots |-> robots, found |-> found,
   doc |-> doc, links |-> links]

\* a reachable site: a sitemap index over one sitemap, two anchors on the seed page
SiteOpen ==
  Site("ok", "ok", <<>>, <<"s1">>,
       [d \in Docs |-> IF d = "s1" THEN SitemapIndex(<<"s2">>)
                       ELSE SitemapSet(<<"u1", "">>)],
       <<"u1", "u2">>)

\* a site that answers no probe and has no robots.txt
SiteDown ==
  Site("fail", "fail", <<>>, <<>>, [d \in Docs |-> Unparsable], <<>>)

\* a site reachable only through a fallback URL, without sitemaps
SiteBare ==
  Site("fallback", "ok", <<>>, <<>>, [d \in Docs |-> Unparsable], <<"", "u1">>)

\* a blocked site whose robots.txt names a sitemap that does not parse
SiteBlocked ==
  Site("fail", "fail", <<"s2">>, <<>>, [d \in Docs |-> Unparsable], <<>>)

\* a site whose sitemap index lists itself
SiteLoop ==
  Site("ok", "fail", <<>>, <<"s1">>,
       [d \in Docs |-> IF d = "s1" THEN SitemapIndex(<<"s1">>)
                       ELSE SitemapSet(<<"u1">>)],
       <<>>)

Options(max, sitemap, html, headless) ==
  [max_urls |-> max, enable_sitemap |-> sitemap, enable_html |-> html,
   enable_headless |-> headless]

InitProcess ==
  /\ ActiveJobs = EmptyMap
  /\ heap = <<>>
  /\ exec = <<>>
  /\ JobsMutex = 0
  /\ store = EmptyMap
  /\ recWrites = {}
  /\ crawlReq = [r \in 1..MaxHandlers |-> IdleCrawlReq]
  /\ getReq = IdleGetReq
  /\ lastResp = EmptyMap
  /\ RabbitChannel = IF brokerUp THEN "open" ELSE "nil"
  /\ pending = {}
  /\ bus = <<>>
  /\ clock = 0
  /\ oidCount = 0
  /\ JobsCollection = "set"
  /\ recoveryLog = "recovered"

\* the registry without a broker; clients ask for the headless tier alone,
\* so that neither the sitemap tier nor the walker runs
Init ==
  /\ site \in {SiteBare, SiteDown}
  /\ idPool = {idA}
  /\ optPool = {Options(0, FALSE, FALSE, TRUE)}
  /\ brokerUp = FALSE
  /\ loopVarShared \in BOOLEAN
  /\ postsLeft = MaxPosts
  /\ restartsLeft = MaxRestarts
  /\ InitProcess
  /\ NoConnections
  /\ maxWorkers = MinWorkers
  /\ batchPool = [c \in 1..MaxCalls |-> Arrivals({}, {})]
  /\ callsLeft = 0
  /\ InitializeGlobalPool

Post ==
  \/ \E r \in 1..MaxHandlers, hasURL \in BOOLEAN, s \in idPool \cup {<<>>}, opt \in optPool :
       HandleCrawlCheck(r, hasURL, s, opt)
  \/ \E r \in 1..MaxHandlers, ok \in BOOLEAN : HandleCrawlCreate(r, ok)

KnownIDs == idPool \cup {AutoID(k) : k \in 1..oidCount}

Get ==
  \/ \E id \in KnownIDs, ok \in BOOLEAN : GetLookup(id, ok)
  \/ GetEncode

Crawl ==
  \E a \in Addrs :
    \/ ExecStart(a)
    \/ ExecProbe(a)
    \/ ExecTier1(a)
    \/ ExecTier2(a)
    \/ ExecCompose(a)

Sitemaps ==
  \E a \in Addrs :
    \/ ParseCall(a)
    \/ ParseFetch(a)
    \/ ParseRecurse(a)
    \/ ParseReturn(a)
    \/ ParseDone(a)

Walk ==
  \E a \in Addrs :
    \/ WalkLink(a)
    \/ WalkDone(a)

Finish ==
  \E a \in Addrs :
    \/ ExecLock(a)
    \/ ExecSetStatus(a)
    \/ ExecSetDetail(a)
    \/ \E ok \in BOOLEAN : ExecStoreUpdate(a, ok)
    \/ ExecUnlock(a)

Recover ==
  \/ \E mongoUp, findOK \in BOOLEAN : Restart(mongoUp, findOK)
  \/ \E job \in recWrites, ok \in BOOLEAN : RecoveryWrite(job, ok)

Next == Post \/ Get \/ Crawl \/ Finish \/ Recover

Spec == Init /\ [][Next]_vars


(***************************************************************************)
(* ProcessContentURLs and the workers.                                     *)
(***************************************************************************)
PoolFrame == <<tierVars, regVars, reqVars, busVars, worldVars, bootVars, oidCount, postsLeft,
               restartsLeft, maxWorkers, batch, connVars, shutdown, browserPool>>

RECURSIVE Copies(_, _)
Copies(bag, entries) ==
  IF entries = {} THEN 0
  ELSE LET e == CHOOSE x \in entries : TRUE
       IN CopiesIn(e, bag) + Copies(bag, entries \ {e})

\* the tasks of a kind and call that hold a browser
Leased(kind, c) ==
  Copies(scrapers.leases, {e \in BagToSet(scrapers.leases) : e[1] = kind /\ e[2] = c})

\* the tasks of a kind and call that are inside processURL
InProcessURL(kind, c) == IF kind = "worker" THEN workers[c].active ELSE calls[c].running

\* those of them that have not called tryBrowserScraping
Fresh(kind, c) == InProcessURL(kind, c) - Leased(kind, c) - scrapers.done[kind][c]

\* processURL returns in a task that holds no browser: after tryHTMLScraping
\* succeeded, or after tryBrowserScraping returned
ProcessURLReturns(kind, c) ==
  \E scraped \in BOOLEAN :
    /\ IF scraped THEN scrapers.done[kind][c] > 0 ELSE Fresh(kind, c) > 0
    /\ scrapers' = IF scraped THEN [scrapers EXCEPT !.done[kind][c] = @ - 1] ELSE scrapers

\* available >= urlCount/10 || available >= 2
CanAcceptWork(active, urlCount) ==
  LET available == maxWorkers - active
  IN available >= urlCount \div BatchUnit \/ available >= MinIdle

\* the admission check of ProcessContentURLs and the branch it takes
CallProcessContentURLs(c, n) ==
  /\ calls[c].pc = "idle"
  /\ calls[c].exit = ""
  /\ \A d \in 1..(c - 1) : calls[d].exit # "" \/ calls[d].pc # "idle"
  /\ callsLeft > 0
  /\ n \in batchPool[c].sizes
  /\ activeJobs \in batchPool[c].arrival
  /\ callsLeft' = callsLeft - 1
  /\ LET reduced == maxWorkers \div ReducedShare
         q == [IdleCall EXCEPT !.n = n, !.active = activeJobs,
                               !.admitted = CanAcceptWork(activeJobs, n)]
     IN calls' = [calls EXCEPT ![c] =
          IF ~CanAcceptWork(activeJobs, n)
          THEN IF reduced < 1
               THEN [q EXCEPT !.exit = "system overloaded"]
               ELSE [q EXCEPT !.pc = "reduced"]
          ELSE IF n = 0
               THEN [q EXCEPT !.exit = "ok"]
               ELSE [q EXCEPT !.pc = "submit", !.next = 1]]
  /\ UNCHANGED <<PoolFrame, activeJobs, jobs, workers, scrapers>>

\* wp.jobs <- job
Submit(c) ==
  /\ calls[c].pc = "submit"
  /\ Len(jobs) < JobsPerWorker * maxWorkers
  /\ jobs' = Append(jobs, c)
  /\ calls' = [calls EXCEPT ![c].next = @ + 1,
                            ![c].pc = IF calls[c].next = calls[c].n THEN "collect" ELSE @]
  /\ UNCHANGED <<PoolFrame, activeJobs, workers, callsLeft, scrapers>>

\* the 5 s timer of the submission select fires while the channel is full
SubmitTimeout(c) ==
  /\ calls[c].pc = "submit"
  /\ Len(jobs) = JobsPerWorker * maxWorkers
  /\ calls' = [calls EXCEPT ![c].pc = "idle", ![c].exit = "job submission timeout"]
  /\ UNCHANGED <<PoolFrame, activeJobs, jobs, workers, callsLeft, scrapers>>

\* result := <-resultCh
Collect(c) ==
  /\ calls[c].pc = "collect"
  /\ calls[c].resultCh > 0
  /\ LET last == calls[c].collected + 1 = calls[c].n
     IN calls' = [calls EXCEPT ![c].resultCh = @ - 1,
                               ![c].collected = @ + 1,
                               ![c].pc = IF last THEN "idle" ELSE @,
                               ![c].exit = IF last THEN "ok" ELSE @]
  /\ UNCHANGED <<PoolFrame, activeJobs, jobs, workers, callsLeft, scrapers>>

\* the 30 s per URL timer of the collection select fires
CollectTimeout(c) ==
  /\ calls[c].pc = "collect"
  /\ calls' = [calls EXCEPT ![c].pc = "idle", ![c].exit = "processing timeout"]
  /\ UNCHANGED <<PoolFrame, activeJobs, jobs, workers, callsLeft, scrapers>>

\* processWithReducedConcurrency: a goroutine gets a slot of sem
ReducedAcquire(c) ==
  /\ calls[c].pc = "reduced"
  /\ calls[c].running < maxWorkers \div ReducedShare
  /\ calls[c].running + calls[c].finished < calls[c].n
  /\ calls' = [calls EXCEPT ![c].running = @ + 1]
  /\ UNCHANGED <<PoolFrame, activeJobs, jobs, workers, callsLeft, scrapers>>

\* processWithReducedConcurrency: a goroutine stores its result and ends
ReducedFinish(c) ==
  /\ calls[c].pc = "reduced"
  /\ calls[c].running > 0
  /\ ProcessURLReturns("reduced", c)
  /\ calls' = [calls EXCEPT ![c].running = @ - 1, ![c].finished = @ + 1]
  /\ UNCHANGED <<PoolFrame, activeJobs, jobs, workers, callsLeft>>

\* processWithReducedConcurrency: wg.Wait() returns
ReducedReturn(c) ==
  /\ calls[c].pc = "reduced"
  /\ calls[c].finished = calls[c].n
  /\ calls' = [calls EXCEPT ![c].pc = "idle", ![c].exit = "ok, reduced"]
  /\ UNCHANGED <<PoolFrame, activeJobs, jobs, workers, callsLeft, scrapers>>

Busy == Sum3(workers)

\* job := <-wp.jobs, by an idle worker
WorkerTake ==
  /\ Busy + shutdown.exited < maxWorkers
  /\ jobs # <<>>
  /\ workers' = [workers EXCEPT ![Head(jobs)].taken = @ + 1]
  /\ jobs' = Tail(jobs)
  /\ UNCHANGED <<PoolFrame, activeJobs, calls, callsLeft, scrapers>>

\* processJob: atomic.AddInt32(&wp.activeJobs, 1)
WorkerBegin(c) ==
  /\ workers[c].taken > 0
  /\ activeJobs' = activeJobs + 1
  /\ workers' = [workers EXCEPT ![c].taken = @ - 1, ![c].active = @ + 1]
  /\ UNCHANGED <<PoolFrame, jobs, calls, callsLeft, scrapers>>

\* processJob: processURL returns and the result goes to job.ResultCh
WorkerSend(c) ==
  /\ workers[c].active > 0
  /\ ProcessURLReturns("worker", c)
  /\ calls' = [calls EXCEPT ![c].resultCh = @ + 1]
  /\ workers' = [workers EXCEPT ![c].active = @ - 1, ![c].sent = @ + 1]
  /\ UNCHANGED <<PoolFrame, activeJobs, jobs, callsLeft>>

\* processJob: the deferred atomic.AddInt32(&wp.activeJobs, -1); the worker
\* is back at its select
WorkerEnd(c) ==
  /\ workers[c].sent > 0
  /\ activeJobs' = activeJobs - 1
  /\ workers' = [workers EXCEPT ![c].sent = @ - 1]
  /\ UNCHANGED <<PoolFrame, jobs, calls, callsLeft, scrapers>>

Content ==
  \/ \E c \in 1..MaxCalls, n \in BatchSizes : CallProcessContentURLs(c, n)
  \/ \E c \in 1..MaxCalls : Submit(c)
  \/ \E c \in 1..MaxCalls : SubmitTimeout(c)
  \/ \E c \in 1..MaxCalls : Collect(c)
  \/ \E c \in 1..MaxCalls : CollectTimeout(c)
  \/ \E c \in 1..MaxCalls : ReducedAcquire(c)
  \/ \E c \in 1..MaxCalls : ReducedFinish(c)
  \/ \E c \in 1..MaxCalls : ReducedReturn(c)

Workers ==
  \/ WorkerTake
  \/ \E c \in 1..MaxCalls : WorkerBegin(c)
  \/ \E c \in 1..MaxCalls : WorkerSend(c)
  \/ \E c \in 1..MaxCalls : WorkerEnd(c)

NextPool == Content \/ Workers

(***************************************************************************)
(* Browser scraping inside processURL, and WorkerPool.Shutdown.            *)
(***************************************************************************)
ScrapeFrame == <<tierVars, regVars, reqVars, busVars, worldVars, bootVars, connVars, oidCount,
                 postsLeft, restartsLeft, maxWorkers, activeJobs, jobs, workers, calls,
                 callsLeft, batch>>

\* tryBrowserScraping up to its deferred Release: browserPool.Get()
TryBrowserScraping(kind, c, ok) ==
  /\ Fresh(kind, c) > 0
  /\ LET got == BrowserPoolGet(browserPool, ok)
     IN /\ browserPool' = got.pool
        /\ scrapers' =
             [scrapers EXCEPT
                !.leases = IF got.err = "" THEN @ (+) SetToBag({<<kind, c, got.browser>>})
                           ELSE @,
                !.done[kind][c] = IF got.err = "" THEN @ ELSE @ + 1]
  /\ UNCHANGED <<ScrapeFrame, shutdown>>

\* tryBrowserScraping returns: the deferred browserPool.Release(browser)
ScrapeReturn(kind, c, browser) ==
  /\ BagIn(<<kind, c, browser>>, scrapers.leases)
  /\ browserPool' = BrowserPoolRelease(browserPool, browser)
  /\ scrapers' = [scrapers EXCEPT !.leases = @ (-) SetToBag({<<kind, c, browser>>}),
                                  !.done[kind][c] = @ + 1]
  /\ UNCHANGED <<ScrapeFrame, shutdown>>

RECURSIVE SubmittedBy(_)
SubmittedBy(cs) ==
  IF cs = <<>> THEN 0
  ELSE (IF Head(cs).next = 0 THEN 0 ELSE Head(cs).next - 1) + SubmittedBy(Tail(cs))

\* the jobs the calls have put on wp.jobs so far
Submitted == SubmittedBy(calls)

\* Shutdown: close(wp.shutdown)
ShutdownClose ==
  /\ shutdown.pc = "none"
  /\ shutdown' = [shutdown EXCEPT !.pc = "waiting", !.submitted = Submitted]
  /\ UNCHANGED <<ScrapeFrame, browserPool, scrapers>>

\* worker: an idle worker's select takes the shutdown case and returns
WorkerExit ==
  /\ shutdown.pc # "none"
  /\ Busy + shutdown.exited < maxWorkers
  /\ shutdown' = [shutdown EXCEPT !.exited = @ + 1]
  /\ UNCHANGED <<ScrapeFrame, browserPool, scrapers>>

\* Shutdown: wp.wg.Wait() returns and wp.browserPool.Shutdown() runs
ShutdownBrowserPool ==
  /\ shutdown.pc = "waiting"
  /\ shutdown.exited = maxWorkers
  /\ shutdown' = [shutdown EXCEPT !.pc = "done"]
  /\ browserPool' = BrowserPoolShutdown(browserPool)
  /\ UNCHANGED <<ScrapeFrame, scrapers>>

\* the worker pool alone: no crawl job is posted.  The first batch overfills
\* the job channel; the later ones arrive while every worker is active.
InitPool ==
  /\ site = SiteDown
  /\ idPool = {}
  /\ optPool = {}
  /\ brokerUp = FALSE
  /\ loopVarShared = FALSE
  /\ postsLeft = 0
  /\ restartsLeft = 0
  /\ InitProcess
  /\ NoConnections
  /\ maxWorkers = MinWorkers
  /\ batchPool = [c \in 1..MaxCalls |->
                    IF c = 1 THEN Arrivals({Overfull}, {0})
                    ELSE Arrivals({1, BatchUnit}, {maxWorkers})]
  /\ callsLeft = MaxCalls
  /\ InitializeGlobalPool

SpecPool == InitPool /\ [][NextPool]_vars


(***************************************************************************)
(* POST /crawl alone, over the job_id strings of JobIDInputs.              *)
(***************************************************************************)
InitJobID ==
  /\ site = SiteDown
  /\ idPool = JobIDInputs
  /\ optPool = {NoOptions}
  /\ brokerUp = FALSE
  /\ loopVarShared = FALSE
  /\ postsLeft = 1
  /\ restartsLeft = 0
  /\ InitProcess
  /\ NoConnections
  /\ maxWorkers = MinWorkers
  /\ batchPool = [c \in 1..MaxCalls |-> Arrivals({}, {})]
  /\ callsLeft = 0
  /\ InitializeGlobalPool

SpecJobID == InitJobID /\ [][Post]_vars

(***************************************************************************)
(* Properties of job_id validation.                                        *)
(***************************************************************************)
AllowedChars == (97..122) \cup (65..90) \cup (48..57) \cup {45, 95}

WellFormedID(s) == Len(s) >= 3 /\ Len(s) <= 50 /\ \A i \in 1..Len(s) : s[i] \in AllowedChars

\* a POST /crawl that carried a URL and the job_id s has been decided
Decided(q) == q.sent # <<>> /\ q.why # "URL is required" /\ (q.pc = "checked" \/ q.code # 0)

\* C8: a non-empty job_id passes validation iff it has 3 to 50 characters, all
\* of them in [A-Za-z0-9_-]; every other non-empty job_id is answered 400
JobIDValidation ==
  \A r \in 1..MaxHandlers :
    Decided(crawlReq[r]) =>
      /\ (crawlReq[r].why # "Invalid job_id format") <=> WellFormedID(crawlReq[r].sent)
      /\ ~WellFormedID(crawlReq[r].sent) => crawlReq[r].code = 400

\* a 50 character job_id ending in an underscore passed validation
LongestIDPassed ==
  \E r \in 1..MaxHandlers :
    /\ crawlReq[r].pc = "checked"
    /\ Len(crawlReq[r].sent) = 50
    /\ crawlReq[r].sent[50] = 95

(***************************************************************************)
(* Properties of the worker pool's admission.                              *)
(***************************************************************************)
Started(c) == calls[c].pc # "idle" \/ calls[c].exit # ""

CeilDiv(n, d) == (n + d - 1) \div d

Larger(x, y) == IF x >= y THEN x ELSE y

\* C9: a single-URL batch that finds every worker active ends either with
\* success under reduced concurrency or with "system overloaded", and takes
\* no other path through ProcessContentURLs
SaturatedSingleton ==
  \A c \in 1..MaxCalls :
    (Started(c) /\ calls[c].n = 1 /\ calls[c].active = maxWorkers) =>
      /\ calls[c].pc \in {"idle", "reduced"}
      /\ calls[c].exit \in {"", "ok, reduced", "system overloaded"}

\* C10: a batch of n >= 1 URLs is admitted iff the idle workers number at
\* least max(ceil(n/10), 2)
AdmissionByIdleWorkers ==
  \A c \in 1..MaxCalls :
    (Started(c) /\ calls[c].n >= 1) =>
      (calls[c].admitted <=>
         maxWorkers - calls[c].active >= Larger(CeilDiv(calls[c].n, 10), 2))


(***************************************************************************)
(* Properties of the job registry.                                         *)
(***************************************************************************)
Terminal == {"completed", "failed"}

\* C1: once GET /jobs/{id} has shown a job completed or failed, no later
\* GET /jobs/{id} shows it with another status
StatusNeverReverts ==
  [][\A id \in DOMAIN lastResp :
       lastResp[id].status \in Terminal => lastResp'[id].status = lastResp[id].status]_vars

\* C2: every record GET /jobs/{id} returns has a result iff it is completed
\* and an error iff it is failed
ReturnedRecordsConsistent ==
  \A id \in DOMAIN lastResp :
    /\ lastResp[id].hasResult <=> lastResp[id].status = "completed"
    /\ lastResp[id].error # "" <=> lastResp[id].status = "failed"

\* C6: a startup recovery that read the store marks exactly the jobs the store
\* held as running: the active-jobs map holds exactly their ids, each id leads
\* to that job's own record, failed with the restart error; records the store
\* held as completed or failed are not loaded, and neither recovery nor its
\* store writes change them
RecoveryMarksInterrupted ==
  [][LET interrupted == {id \in DOMAIN store : store[id].status = "running"}
         recovery == restartsLeft' < restartsLeft /\ recoveryLog' = "recovered"
         write == restartsLeft' = restartsLeft /\ recWrites' # recWrites
     IN /\ recovery => DOMAIN ActiveJobs' = interrupted
        /\ recovery => \A id \in interrupted :
                          /\ heap'[ActiveJobs'[id]].id = id
                          /\ heap'[ActiveJobs'[id]].status = "failed"
                          /\ heap'[ActiveJobs'[id]].error = ErrRestart
        /\ recovery => \A id \in DOMAIN store \ interrupted : store'[id] = store[id]
        /\ write => \A id \in DOMAIN store \ DOMAIN ActiveJobs : store'[id] = store[id]]_vars

\* C7: a POST /crawl whose job_id is taken, in memory or in the store, is
\* answered 409, and no job id ever has two executors
TakenIDConflicts ==
  /\ \A r \in 1..MaxHandlers :
       (crawlReq[r].existed /\ (crawlReq[r].pc = "checked" \/ crawlReq[r].code # 0))
         => crawlReq[r].code = 409
  /\ \A a, b \in Addrs :
       (a # b /\ exec[a].pc # "none" /\ exec[b].pc # "none") => heap[a].id # heap[b].id


(***************************************************************************)
(* One job with the broker up: the executor, the publish goroutines and a  *)
(* polling client.                                                         *)
(***************************************************************************)
InitBus ==
  /\ site \in {SiteBare, SiteDown}
  /\ idPool = {idA}
  /\ optPool = {Options(0, FALSE, FALSE, TRUE)}
  /\ brokerUp = TRUE
  /\ loopVarShared = FALSE
  /\ postsLeft = 1
  /\ restartsLeft = 0
  /\ InitProcess
  /\ NoConnections
  /\ maxWorkers = MinWorkers
  /\ batchPool = [c \in 1..MaxCalls |-> Arrivals({}, {})]
  /\ callsLeft = 0
  /\ InitializeGlobalPool

Publish == \E ev \in pending, ok \in BOOLEAN : PublishGoroutine(ev, ok)

NextBus == Post \/ Get \/ Crawl \/ Finish \/ Publish

SpecBus == InitBus /\ [][NextBus]_vars

(***************************************************************************)
(* Properties of the events on the bus.                                    *)
(***************************************************************************)
\* the positions of the bus that hold events of the job id
EventsOf(id) == {i \in 1..Len(bus) : bus[i].job = id}

\* the executor of the job id has ended and none of its events is in flight
Quiet(id) ==
  /\ id \in DOMAIN ActiveJobs
  /\ exec[ActiveJobs[id]].pc = "done"
  /\ \A ev \in pending : ev.job # id

\* C3: a GET /jobs/{id} that starts after a terminal event of the job has
\* reached the bus never returns status running
TerminalEventAfterStatus ==
  \A id \in DOMAIN lastResp :
    lastResp[id].afterTerminal => lastResp[id].status # "running"

\* C4: once a job is over, the last of its events on the bus is a completed
\* or error event with the greatest timestamp of the job's events, and no
\* progress or url_discovered event of the job follows a terminal event
TerminalEventLast ==
  \A id \in DOMAIN ActiveJobs :
    /\ \A i, j \in EventsOf(id) :
         (i < j /\ IsTerminalEvent(bus[i])) => bus[j].type \notin {"progress", "url_discovered"}
    /\ (Quiet(id) /\ EventsOf(id) # {}) =>
         LET last == CHOOSE i \in EventsOf(id) : \A j \in EventsOf(id) : j <= i
         IN /\ bus[last].type \in {"completed", "error"}
            /\ \A j \in EventsOf(id) : bus[j].ts <= bus[last].ts


(***************************************************************************)
(* The executor under fair scheduling, without broker and without          *)
(* restarts, over sites with and without sitemaps.                         *)
(***************************************************************************)
InitFair ==
  /\ site \in {SiteOpen, SiteDown, SiteBare, SiteBlocked, SiteLoop}
  /\ idPool = {idA}
  /\ optPool = {NoOptions, Options(1, FALSE, TRUE, FALSE)}
  /\ brokerUp = FALSE
  /\ loopVarShared = FALSE
  /\ postsLeft = MaxPosts
  /\ restartsLeft = 0
  /\ InitProcess
  /\ NoConnections
  /\ maxWorkers = MinWorkers
  /\ batchPool = [c \in 1..MaxCalls |-> Arrivals({}, {})]
  /\ callsLeft = 0
  /\ InitializeGlobalPool

\* one step of the executor goroutine of the record at address a
ExecStep(a) ==
  /\ a \in Addrs
  /\ \/ ExecStart(a) \/ ExecProbe(a) \/ ExecTier1(a) \/ ExecTier2(a) \/ ExecCompose(a)
     \/ ParseCall(a) \/ ParseFetch(a) \/ ParseRecurse(a) \/ ParseReturn(a) \/ ParseDone(a)
     \/ WalkLink(a) \/ WalkDone(a)
     \/ ExecLock(a) \/ ExecSetStatus(a) \/ ExecSetDetail(a) \/ ExecUnlock(a)
     \/ \E ok \in BOOLEAN : ExecStoreUpdate(a, ok)

NextFair == Post \/ Crawl \/ Sitemaps \/ Walk \/ Finish

\* the Go scheduler runs every runnable goroutine again and again
FairSpec ==
  /\ InitFair
  /\ [][NextFair]_vars
  /\ \A a \in 1..MaxPosts : WF_vars(ExecStep(a))

\* C5: every accepted job eventually leaves status running
JobsLeaveRunning ==
  \A a \in 1..MaxPosts :
    (a \in Addrs /\ heap[a].status = "running") ~> (a \in Addrs /\ heap[a].status # "running")


(***************************************************************************)
(* ProcessContentURLs seen URL by URL: one call, each Job and JobResult    *)
(* with its Index.  The jobs of earlier calls still on wp.jobs are ahead   *)
(* of this call's jobs.                                                    *)
(***************************************************************************)
BatchFrame == <<tierVars, regVars, reqVars, busVars, worldVars, bootVars, oidCount, postsLeft,
                restartsLeft, maxWorkers, jobs, workers, calls, callsLeft, connVars,
                haltVars>>

\* the ContentResponse of processURL for a URL
processURL(url) == [URL |-> url, Content |-> <<"extracted from", url>>]

Job(index, url) == [Index |-> index, URL |-> url]

JobResult(index, response) == [Index |-> index, Response |-> response]

\* a slot of the results slice: its value and the writes it has had
EmptySlot == [Response |-> [URL |-> "", Content |-> <<>>], writes |-> 0]

Written(slot, response) == [Response |-> response, writes |-> slot.writes + 1]

\* the batches a client sends: n distinct URLs
ContentURLs(n) == [i \in 1..n |-> <<"page", i>>]

SlotOf_ArrivalOrder(result, collected) == collected + 1

\* results[result.Index] = result.Response
SlotOf(result, collected) == result.Index + 1

\* the admission check and the branch taken
BatchCall(n) ==
  /\ batch.pc = "idle"
  /\ batch.exit = ""
  /\ n \in batchPool[1].sizes
  /\ activeJobs \in batchPool[1].arrival
  /\ LET urls == ContentURLs(n)
         reduced == maxWorkers \div ReducedShare
         q == [NoBatch EXCEPT !.urls = urls, !.results = [i \in 1..n |-> EmptySlot]]
     IN batch' =
          IF ~CanAcceptWork(activeJobs, n)
          THEN IF reduced < 1
               THEN [q EXCEPT !.results = <<>>, !.exit = "system overloaded"]
               ELSE [q EXCEPT !.pc = "reduced", !.gor = [i \in 1..n |-> "started"]]
          ELSE IF n = 0
               THEN [q EXCEPT !.exit = "ok"]
               ELSE [q EXCEPT !.pc = "submit", !.next = 0]
  /\ UNCHANGED <<BatchFrame, activeJobs>>

\* wp.jobs <- job, for i = batch.next
BatchSubmit ==
  /\ batch.pc = "submit"
  /\ Len(jobs) + Len(batch.jobs) < JobsPerWorker * maxWorkers
  /\ LET i == batch.next
     IN batch' = [batch EXCEPT !.jobs = Append(@, Job(i, batch.urls[i + 1])),
                               !.next = i + 1,
                               !.pc = IF i + 1 = Len(batch.urls) THEN "collect" ELSE @]
  /\ UNCHANGED <<BatchFrame, activeJobs>>

\* the 5 s timer of the submission select fires while the channel is full
BatchSubmitTimeout ==
  /\ batch.pc = "submit"
  /\ Len(jobs) + Len(batch.jobs) = JobsPerWorker * maxWorkers
  /\ batch' = [batch EXCEPT !.pc = "idle", !.results = <<>>,
                            !.exit = "job submission timeout"]
  /\ UNCHANGED <<BatchFrame, activeJobs>>

\* an idle worker receives the oldest job and enters processJob
BatchTake ==
  /\ jobs = <<>>
  /\ batch.jobs # <<>>
  /\ Busy + Cardinality(batch.held) < maxWorkers
  /\ batch' = [batch EXCEPT !.jobs = Tail(@), !.held = @ \cup {Head(batch.jobs)}]
  /\ activeJobs' = activeJobs + 1
  /\ UNCHANGED BatchFrame

\* processJob: processURL(job.URL) returns, the result goes to job.ResultCh
\* (buffered for the whole batch, so the send never waits), activeJobs drops
BatchSend(job) ==
  /\ job \in batch.held
  /\ batch' = [batch EXCEPT !.held = @ \ {job},
                            !.resultCh = Append(@, JobResult(job.Index, processURL(job.URL)))]
  /\ activeJobs' = activeJobs - 1
  /\ UNCHANGED BatchFrame

\* result := <-resultCh
BatchCollect ==
  /\ batch.pc = "collect"
  /\ batch.resultCh # <<>>
  /\ LET result == Head(batch.resultCh)
         k == SlotOf(result, batch.collected)
         last == batch.collected + 1 = Len(batch.urls)
     IN batch' = [batch EXCEPT !.resultCh = Tail(@),
                               !.results[k] = Written(@, result.Response),
                               !.collected = @ + 1,
                               !.pc = IF last THEN "idle" ELSE @,
                               !.exit = IF last THEN "ok" ELSE @]
  /\ UNCHANGED <<BatchFrame, activeJobs>>

\* the 30 s per URL timer of the collection select fires
BatchCollectTimeout ==
  /\ batch.pc = "collect"
  /\ batch' = [batch EXCEPT !.pc = "idle", !.exit = "processing timeout"]
  /\ UNCHANGED <<BatchFrame, activeJobs>>

\* processWithReducedConcurrency: goroutine i gets a slot of sem
GoAcquire(i) ==
  /\ i \in DOMAIN batch.gor
  /\ batch.gor[i] = "started"
  /\ Cardinality({j \in DOMAIN batch.gor : batch.gor[j] = "running"})
       < maxWorkers \div ReducedShare
  /\ batch' = [batch EXCEPT !.gor[i] = "running"]
  /\ UNCHANGED <<BatchFrame, activeJobs>>

\* processWithReducedConcurrency: results[index] = processURL(url), then the
\* deferred release of sem and wg.Done()
GoStore(i) ==
  /\ i \in DOMAIN batch.gor
  /\ batch.gor[i] = "running"
  /\ batch' = [batch EXCEPT !.gor[i] = "done",
                            !.results[i] = Written(@, processURL(batch.urls[i]))]
  /\ UNCHANGED <<BatchFrame, activeJobs>>

\* processWithReducedConcurrency: wg.Wait() returns
BatchReducedReturn ==
  /\ batch.pc = "reduced"
  /\ \A i \in DOMAIN batch.gor : batch.gor[i] = "done"
  /\ batch' = [batch EXCEPT !.pc = "idle", !.exit = "ok, reduced"]
  /\ UNCHANGED <<BatchFrame, activeJobs>>

Batch ==
  \/ \E n \in BatchSizes : BatchCall(n)
  \/ BatchSubmit
  \/ BatchSubmitTimeout
  \/ BatchTake
  \/ \E job \in batch.held : BatchSend(job)
  \/ BatchCollect
  \/ BatchCollectTimeout
  \/ \E i \in 1..Overfull : GoAcquire(i)
  \/ \E i \in 1..Overfull : GoStore(i)
  \/ BatchReducedReturn


\* the pool after a batch of Overfull URLs whose caller has given up: every
\* worker is inside processJob, the rest of the batch waits on wp.jobs
SaturatedPool ==
  /\ activeJobs = maxWorkers
  /\ jobs = [k \in 1..(Overfull - maxWorkers) |-> 1]
  /\ workers = [c \in 1..MaxCalls |->
                  IF c = 1 THEN [NoWorkers EXCEPT !.active = maxWorkers] ELSE NoWorkers]
  /\ calls = [c \in 1..MaxCalls |->
                IF c = 1
                THEN [IdleCall EXCEPT !.n = Overfull, !.next = Overfull + 1,
                                      !.admitted = TRUE, !.exit = "processing timeout"]
                ELSE IdleCall]
  /\ batch = NoBatch
  /\ shutdown = NoShutdown
  /\ browserPool = NewBrowserPool(maxWorkers \div PoolShare)
  /\ scrapers = NoScrapers
  /\ extraction = NoExtraction

\* one call, URL by URL: a small batch on a fresh pool, or a batch that
\* arrives when no worker is idle and the workers stay busy
InitOrder ==
  /\ site = SiteDown
  /\ idPool = {}
  /\ optPool = {}
  /\ brokerUp = FALSE
  /\ loopVarShared = FALSE
  /\ postsLeft = 0
  /\ restartsLeft = 0
  /\ InitProcess
  /\ NoConnections
  /\ maxWorkers = MinWorkers
  /\ callsLeft = 0
  /\ \/ /\ InitializeGlobalPool
        /\ batchPool = [c \in 1..MaxCalls |-> Arrivals({3}, {0})]
     \/ /\ SaturatedPool
        /\ batchPool = [c \in 1..MaxCalls |-> Arrivals({MinWorkers, BatchUnit}, {maxWorkers})]

SpecOrder == InitOrder /\ [][Batch]_vars

(***************************************************************************)
(* Properties of the results of a content batch.                           *)
(***************************************************************************)
\* C11: a call that returns without error returns one response per input
\* URL, response i is the extraction of URL i, and every slot of the result
\* slice has been written exactly once
ResultsByInputPosition ==
  batch.exit \in {"ok", "ok, reduced"} =>
    /\ Len(batch.results) = Len(batch.urls)
    /\ \A i \in 1..Len(batch.urls) :
         /\ batch.results[i].Response = processURL(batch.urls[i])
         /\ batch.results[i].writes = 1

\* a batch of three URLs on the normal path returned without error, every
\* result collected
ThreeResultsReturned ==
  /\ batch.exit = "ok"
  /\ Len(batch.urls) = 3
  /\ batch.collected = 3
  /\ batch.resultCh = <<>>


(***************************************************************************)
(* The call under timers that fire: the caller's own steps are taken       *)
(* whenever they stay possible, while nothing makes processURL return.     *)
(***************************************************************************)
CallerStep ==
  \/ BatchSubmit
  \/ BatchSubmitTimeout
  \/ BatchCollect
  \/ BatchCollectTimeout
  \/ BatchReducedReturn

FairOrder == InitOrder /\ [][Batch]_vars /\ WF_vars(CallerStep)

\* C12: every content batch returns, by its deadline at the latest, also
\* when the extraction of one of its URLs never finishes
BatchMeetsDeadline == (batch.pc # "idle") ~> (batch.exit # "")


(***************************************************************************)
(* One crawl job at a time over every combination of tiers, limits and     *)
(* sites, without broker and without restarts.                             *)
(***************************************************************************)
\* a reachable site whose sitemaps repeat URLs and list a foreign URL, and
\* whose seed page links to its www. twin and to the foreign host
SiteRepeats ==
  Site("ok", "ok", <<>>, <<"s1", "s2">>,
       [d \in Docs |-> IF d = "s1" THEN SitemapSet(<<"u1", "u1", "x1">>)
                       ELSE SitemapSet(<<"u2", "u1">>)],
       <<"u2", "u2", "x1", "w1", "u3">>)

\* a site that answers no probe, whose robots.txt names a sitemap that parses
SiteRobots ==
  Site("fail", "fail", <<"s2">>, <<>>,
       [d \in Docs |-> IF d = "s2" THEN SitemapSet(<<"u1">>) ELSE Unparsable],
       <<>>)

\* the max_urls values clients send: negative, absent, small, above the limit
MaxURLsInputs == {-1, 0, 2, MaxURLsLimit + 1}

TierInputs ==
  {Options(m, sm, html, hl) : m \in MaxURLsInputs, sm \in BOOLEAN, html \in BOOLEAN,
                              hl \in BOOLEAN}

InitTiers ==
  /\ site \in {SiteOpen, SiteDown, SiteBare, SiteBlocked, SiteRepeats, SiteRobots}
  /\ idPool = {idA}
  /\ optPool = TierInputs
  /\ brokerUp = FALSE
  /\ loopVarShared = FALSE
  /\ postsLeft = 1
  /\ restartsLeft = 0
  /\ InitProcess
  /\ NoConnections
  /\ maxWorkers = MinWorkers
  /\ batchPool = [c \in 1..MaxCalls |-> Arrivals({}, {})]
  /\ callsLeft = 0
  /\ InitializeGlobalPool

NextTiers == Post \/ Crawl \/ Sitemaps \/ Walk \/ Finish

SpecTiers == InitTiers /\ [][NextTiers]_vars

(***************************************************************************)
(* Properties of crawl results.                                            *)
(***************************************************************************)
\* the jobs whose executor has written a result
Completed == {a \in Addrs : heap[a].status = "completed" /\ heap[a].result.present}

\* C13: for every completed job the stored max_urls is at most 5000 and the
\* result holds at most max_urls URLs
ResultWithinMaxURLs ==
  \A a \in Completed :
    /\ exec[a].req.max_urls <= MaxURLsLimit
    /\ Len(heap[a].result.URLs) <= exec[a].req.max_urls


\* C14: no CrawlResult lists a URL twice, whichever tiers produced it and
\* whether or not it was truncated
NoDuplicateURLs ==
  \A a \in Addrs :
    exec[a].result.present =>
      \A i, j \in 1..Len(exec[a].result.URLs) :
        exec[a].result.URLs[i] = exec[a].result.URLs[j] => i = j

\* a result that both tiers fed from a site whose sitemaps and links repeat
\* URLs, cut to max_urls
TruncatedFromBothTiers ==
  \E a \in Addrs :
    /\ site = SiteRepeats
    /\ exec[a].result.present
    /\ exec[a].req.enable_sitemap /\ exec[a].req.enable_html
    /\ exec[a].req.max_urls = 2
    /\ Len(exec[a].result.URLs) = 2

\* C15: every URL of a CrawlResult is on the seed's host or on its www. twin
ResultOnSeedHost ==
  \A a \in Addrs :
    exec[a].result.present =>
      \A i \in 1..Len(exec[a].result.URLs) :
        HostOf(exec[a].result.URLs[i]) \in allowedDomains(SeedHost)


(***************************************************************************)
(* FindAccessibleURL alone: it is called on a URL, then on the URL that    *)
(* call returned, while the same hosts answer.                             *)
(***************************************************************************)
ProbeInputs ==
  {URLStr(scheme, host) :
     scheme \in {"http", "HTTP", "https", "ftp"},
     host \in {<<"example", "com">>, <<"www", "example", "com">>,
               <<"www", "www", "example", "com">>}}
  \cup {BadURL}

\* the URLs a call on u, or on a URL it tries, can try
Near(u) ==
  LET tried(v) == {Attempts(v)[i] : i \in 1..Len(Attempts(v))}
  IN UNION {tried(v) : v \in tried(u)}

InitProber ==
  /\ site = SiteDown
  /\ idPool = {}
  /\ optPool = {}
  /\ brokerUp = FALSE
  /\ loopVarShared = FALSE
  /\ postsLeft = 0
  /\ restartsLeft = 0
  /\ InitProcess
  /\ \E u \in ProbeInputs :
       \E answering \in SUBSET Near(u) :
         prober = [NoProber EXCEPT !.input = u, !.answering = answering]
  /\ wsConn = NoSocket
  /\ maxWorkers = MinWorkers
  /\ batchPool = [c \in 1..MaxCalls |-> Arrivals({}, {})]
  /\ callsLeft = 0
  /\ InitializeGlobalPool

NextProber ==
  \/ prober.returned = <<>> /\ FindAccessibleURL(prober.input)
  \/ Len(prober.returned) = 1 /\ FindAccessibleURL(prober.returned[1].FallbackURL)
  \/ FindCheck

SpecProber == InitProber /\ [][NextProber]_vars

\* C16: while the same hosts answer, FindAccessibleURL called on the URL it
\* returned returns that URL again, whether the first call found an accessible
\* URL or none
FindIdempotent ==
  Len(prober.returned) = 2 =>
    /\ prober.returned[2].FallbackURL = prober.returned[1].FallbackURL
    /\ prober.returned[2].Success = prober.returned[1].Success

\* the first call succeeded on a fallback, and the second call has returned
FallbackProbedAgain ==
  /\ Len(prober.returned) = 2
  /\ prober.returned[1].Success
  /\ prober.returned[1].FallbackURL # prober.input


\* C17: a crawl job ends failed exactly when the probe failed for the seed and
\* its variants and robots.txt listed no sitemap, and then its error is the
\* "all fallbacks are inaccessible" one; every other job ends completed,
\* whatever its tiers reported and however many URLs it found
FailedIffUnreachable ==
  \A a \in Addrs :
    exec[a].pc \in {"detail", "update", "unlock", "done"} =>
      /\ heap[a].status \in {"failed", "completed"}
      /\ heap[a].status = "failed" <=> (site.probe = "fail" /\ site.robots = <<>>)
      /\ (heap[a].status = "failed" /\ exec[a].pc # "detail")
           => heap[a].error = ErrInaccessible
      /\ (heap[a].status = "completed" /\ exec[a].pc # "detail")
           => heap[a].result.present /\ heap[a].error = ""

\* a job with both tiers on, against the blocked site whose only sitemap does
\* not parse, has ended completed with no URL
CompletedWithNothing ==
  \E a \in Addrs :
    /\ site = SiteBlocked
    /\ exec[a].req.enable_sitemap /\ exec[a].req.enable_html
    /\ exec[a].pc = "done"
    /\ heap[a].status = "completed"
    /\ heap[a].result.URLs = <<>>


(***************************************************************************)
(* GET /ws/{id}: HandleWebSocket, its reader goroutine and the consumer    *)
(* goroutine of ConsumeJobEvents.  The exchange is a topic exchange: a     *)
(* message reaches the connection's queue when its routing key is one the  *)
(* queue is bound with.                                                    *)
(***************************************************************************)
EventChanCap == 100
StopChanCap == 1

\* fmt.Sprintf("crawler.%s.%s", event.JobID, event.Type)
RoutingKey(job, type) == <<"crawler", job, type>>

\* the routing keys CreateJobQueue binds
routingKeys(jobID) ==
  {RoutingKey(jobID, type) : type \in {"url_discovered", "progress", "completed", "error"}}

\* a body that json.Unmarshal rejects, published by another client of the broker
NotJSON == "not JSON"

\* the words "*" and "#" of a binding key of a topic exchange
Star == <<42>>
Hash == <<35>>

\* the topic exchange's match of a binding key with a routing key, both of
\* three words: "*" stands for any one word, "#" for any number of words
TopicMatch(binding, key) ==
  /\ binding[1] = key[1]
  /\ binding[2] = key[2] \/ binding[2] \in {Star, Hash}
  /\ binding[3] = key[3]

\* the messages of the exchange that are in the queue or were delivered from it
Routed(c) ==
  {i \in (c.boundAt + 1)..Len(bus) :
     \E binding \in c.bound : TopicMatch(binding, RoutingKey(bus[i].job, bus[i].type))}

\* the messages still in the queue
Queued(c) == {i \in Routed(c) : i > c.cursor}

SocketFrame == <<tierVars, regVars, reqVars, pending, bus, clock, worldVars, bootVars, poolVars,
                 prober, oidCount, postsLeft, restartsLeft>>

\* config.Upgrader.Upgrade
WSUpgrade(jobID, ok) ==
  /\ wsConn.pc = "none"
  /\ wsConn' = IF ok THEN Socket(jobID) ELSE [NoSocket EXCEPT !.pc = "returned"]
  /\ UNCHANGED <<SocketFrame, RabbitChannel>>

\* services.CreateJobQueue: the channel is reopened when it is closed, the
\* queue declared and bound; on an error the handler returns
CreateJobQueue(ok) ==
  /\ wsConn.pc = "upgraded"
  /\ IF RabbitChannel # "nil" /\ ok
     THEN /\ wsConn' = [wsConn EXCEPT !.pc = "queued",
                                     !.bound = routingKeys(wsConn.job),
                                     !.boundAt = Len(bus),
                                     !.cursor = Len(bus)]
          /\ RabbitChannel' = "open"
     ELSE /\ wsConn' = [wsConn EXCEPT
                          !.pc = "returned",
                          !.frames = WriteError(wsConn, "Failed to create event queue")]
          /\ UNCHANGED RabbitChannel
  /\ UNCHANGED SocketFrame

\* the "connected" message
WSGreet(ok) ==
  /\ wsConn.pc = "queued"
  /\ wsConn' = [wsConn EXCEPT
                  !.pc = IF ok THEN "greeted" ELSE "returned",
                  !.frames = IF ok
                             THEN Append(@, HandlerMessage("connected", wsConn.job,
                                                           "Connected to live updates"))
                             ELSE @]
  /\ UNCHANGED <<SocketFrame, RabbitChannel>>

\* services.ConsumeJobEvents starts the consumer goroutine, then the handler
\* starts the reader goroutine and enters its loop
ConsumeJobEvents(ok) ==
  /\ wsConn.pc = "greeted"
  /\ IF RabbitChannel # "nil" /\ ok
     THEN /\ wsConn' = [wsConn EXCEPT !.pc = "streaming", !.consumer = "select",
                                     !.reader = "reading"]
          /\ RabbitChannel' = "open"
     ELSE /\ wsConn' = [wsConn EXCEPT
                          !.pc = "returned",
                          !.frames = WriteError(wsConn, "Failed to start event consumption")]
          /\ UNCHANGED RabbitChannel
  /\ UNCHANGED SocketFrame

\* the client goes away
ClientClose ==
  /\ wsConn.pc \notin {"none", "returned"}
  /\ wsConn.open
  /\ wsConn' = [wsConn EXCEPT !.open = FALSE]
  /\ UNCHANGED <<SocketFrame, RabbitChannel>>

\* conn.ReadMessage() returns an error: the client went away, or the handler
\* returned and its deferred conn.Close() ran
ReaderError ==
  /\ wsConn.reader = "reading"
  /\ ~wsConn.open \/ wsConn.pc = "returned"
  /\ wsConn' = [wsConn EXCEPT !.reader = "sending"]
  /\ UNCHANGED <<SocketFrame, RabbitChannel>>

\* the reader's stopChan <- true
ReaderStop ==
  /\ wsConn.reader = "sending"
  /\ wsConn.stopChan < StopChanCap
  /\ wsConn' = [wsConn EXCEPT !.reader = "exited", !.stopChan = @ + 1,
                              !.stopSent = TRUE]
  /\ UNCHANGED <<SocketFrame, RabbitChannel>>

\* case event, ok := <-eventChan with an event: conn.WriteJSON(wsMessage)
HandlerForward(ok) ==
  /\ wsConn.pc = "streaming"
  /\ wsConn.eventChan # <<>>
  /\ wsConn' = [wsConn EXCEPT
                  !.eventChan = Tail(@),
                  !.written = IF ok THEN Append(@, Head(wsConn.eventChan)) ELSE @,
                  !.frames = IF ok
                             THEN Append(@, WebSocketMessage(bus[Head(wsConn.eventChan)]))
                             ELSE @,
                  !.pc = IF ok THEN "streaming" ELSE "stopping"]
  /\ UNCHANGED <<SocketFrame, RabbitChannel>>

\* the handler's stopChan <- true after a failed write, then its return
HandlerSendStop ==
  /\ wsConn.pc = "stopping"
  /\ wsConn.stopChan < StopChanCap
  /\ wsConn' = [wsConn EXCEPT !.pc = "returned", !.stopChan = @ + 1,
                              !.stopSent = TRUE]
  /\ UNCHANGED <<SocketFrame, RabbitChannel>>

\* case event, ok := <-eventChan on the closed, drained channel
HandlerChanClosed ==
  /\ wsConn.pc = "streaming"
  /\ wsConn.eventChan = <<>> /\ wsConn.closed
  /\ wsConn' = [wsConn EXCEPT !.pc = "returned"]
  /\ UNCHANGED <<SocketFrame, RabbitChannel>>

\* case <-stopChan in the handler's loop
HandlerStop ==
  /\ wsConn.pc = "streaming"
  /\ wsConn.stopChan > 0
  /\ wsConn' = [wsConn EXCEPT !.pc = "returned", !.stopChan = @ - 1]
  /\ UNCHANGED <<SocketFrame, RabbitChannel>>

\* case <-stopChan in the consumer's outer select; the deferred close(eventChan)
ConsumerStop ==
  /\ wsConn.consumer = "select"
  /\ wsConn.stopChan > 0
  /\ wsConn' = [wsConn EXCEPT !.consumer = "exited", !.stopChan = @ - 1,
                              !.closed = TRUE]
  /\ UNCHANGED <<SocketFrame, RabbitChannel>>

\* case msg, ok := <-msgs with the next delivery: json.Unmarshal, and
\* msg.Nack(false, false) when it fails
ConsumerReceive ==
  /\ wsConn.consumer = "select"
  /\ Queued(wsConn) # {}
  /\ LET i == CHOOSE m \in Queued(wsConn) : \A n \in Queued(wsConn) : m <= n
     IN wsConn' = IF bus[i].msg = NotJSON
                  THEN [wsConn EXCEPT !.cursor = i, !.dropped = @ \cup {i}]
                  ELSE [wsConn EXCEPT !.cursor = i, !.inflight = i,
                                      !.consumer = "holding"]
  /\ UNCHANGED <<SocketFrame, RabbitChannel>>

\* case eventChan <- event: msg.Ack(false)
ConsumerForward ==
  /\ wsConn.consumer = "holding"
  /\ Len(wsConn.eventChan) < EventChanCap
  /\ wsConn' = [wsConn EXCEPT !.eventChan = Append(@, wsConn.inflight),
                              !.acked = @ \cup {wsConn.inflight},
                              !.inflight = 0,
                              !.consumer = "select"]
  /\ UNCHANGED <<SocketFrame, RabbitChannel>>

\* case <-stopChan in the inner select: msg.Nack(false, true), the return and
\* the deferred close(eventChan)
ConsumerStopHolding ==
  /\ wsConn.consumer = "holding"
  /\ wsConn.stopChan > 0
  /\ wsConn' = [wsConn EXCEPT !.consumer = "exited", !.stopChan = @ - 1,
                              !.requeued = @ \cup {wsConn.inflight},
                              !.inflight = 0,
                              !.closed = TRUE]
  /\ UNCHANGED <<SocketFrame, RabbitChannel>>

\* another client of the broker publishes a body that is not an event, with a
\* routing key of the job
ForeignPublish(job) ==
  /\ RabbitChannel = "open"
  /\ \A i \in 1..Len(bus) : bus[i].msg # NotJSON
  /\ bus' = Append(bus, CrawlEvent(job, "progress", NotJSON, 0))
  /\ UNCHANGED <<regVars, reqVars, envVars, RabbitChannel, pending, clock, oidCount,
                 postsLeft, restartsLeft>>

Handler ==
  \/ \E ok \in BOOLEAN : WSUpgrade(idA, ok)
  \/ \E ok \in BOOLEAN : CreateJobQueue(ok)
  \/ \E ok \in BOOLEAN : WSGreet(ok)
  \/ \E ok \in BOOLEAN : ConsumeJobEvents(ok)
  \/ \E ok \in BOOLEAN : HandlerForward(ok)
  \/ HandlerSendStop
  \/ HandlerChanClosed
  \/ HandlerStop

Reader == ReaderError \/ ReaderStop

Consumer == ConsumerStop \/ ConsumerReceive \/ ConsumerForward \/ ConsumerStopHolding

\* a crawl of the blocked site with the HTML tier alone, about to start that
\* tier: its earlier events have reached the exchange
MidCrawlRequest == Options(DefaultMaxURLs, FALSE, TRUE, FALSE)

MidCrawlEvents ==
  <<Ev("progress", "Starting crawl..."),
    Ev("progress", "trying robots.txt fallback"),
    Ev("progress", "Checking robots.txt"),
    Ev("progress", "Found sitemap(s) in robots.txt"),
    Ev("progress", "Found sitemap(s) via robots.txt fallback"),
    Ev("progress", "Starting three-tier crawling")>>

MidCrawl(pc, events) ==
  /\ site = SiteBlocked
  /\ idPool = {idA}
  /\ optPool = {Options(0, FALSE, TRUE, FALSE)}
  /\ brokerUp = TRUE
  /\ loopVarShared = FALSE
  /\ postsLeft = 0
  /\ restartsLeft = 0
  /\ ActiveJobs = (idA :> 1)
  /\ heap = <<JobStatus(idA, "running", "", NoResult)>>
  /\ exec = <<[Executor(MidCrawlRequest) EXCEPT !.pc = pc]>>
  /\ JobsMutex = 0
  /\ store = (idA :> JobStatus(idA, "running", "", NoResult))
  /\ recWrites = {}
  /\ crawlReq = [r \in 1..MaxHandlers |->
                   IF r = 1
                   THEN [IdleCrawlReq EXCEPT !.job_id = idA, !.sent = idA,
                                             !.req = MidCrawlRequest,
                                             !.code = 200, !.why = "accepted"]
                   ELSE IdleCrawlReq]
  /\ getReq = IdleGetReq
  /\ lastResp = EmptyMap
  /\ RabbitChannel = "open"
  /\ pending = {}
  /\ bus = [i \in 1..Len(events) |-> CrawlEvent(idA, events[i][1], events[i][2], i)]
  /\ clock = Len(events)
  /\ oidCount = 0
  /\ JobsCollection = "set"
  /\ recoveryLog = "recovered"
  /\ NoConnections
  /\ maxWorkers = MinWorkers
  /\ batchPool = [c \in 1..MaxCalls |-> Arrivals({}, {})]
  /\ callsLeft = 0
  /\ InitializeGlobalPool

InitSocket == MidCrawl("tier2", MidCrawlEvents)

Tier2 == \E a \in Addrs : ExecTier2(a) \/ ExecCompose(a)

NextSocket ==
  \/ Tier2
  \/ Finish
  \/ Publish
  \/ ForeignPublish(idA)
  \/ Handler
  \/ ClientClose
  \/ Reader
  \/ Consumer

SpecSocket == InitSocket /\ [][NextSocket]_vars


\* the crawl is over, every event it published has been dealt with, and the
\* connection is still up with nothing left to forward
SocketQuiet ==
  /\ \A a \in Addrs : exec[a].pc = "done"
  /\ pending = {}
  /\ wsConn.pc = "streaming" /\ wsConn.open /\ wsConn.reader = "reading"
  /\ wsConn.consumer = "select" /\ Queued(wsConn) = {}
  /\ wsConn.eventChan = <<>> /\ wsConn.stopChan = 0

\* the events published for the connection's job after its queue was bound
PublishedSinceBound ==
  {i \in (wsConn.boundAt + 1)..Len(bus) :
     bus[i].job = wsConn.job /\ bus[i].msg # NotJSON}

\* C18: a subscriber whose queue was bound before an event of its job was
\* published receives that event, whatever its type, tier_switch and
\* sitemap_discovered included: once the crawl is over and the connection has
\* nothing left to forward, every such event has been written to the client
SubscriberReceivesAll ==
  SocketQuiet => \A i \in PublishedSinceBound : InSeq(i, wsConn.written)

\* C19: a message is acked only when its event has been written to the client;
\* a message that does not unmarshal is nacked without requeue and no other
\* is; a consumer that stopped holds no message it did not nack with requeue
AckedAfterSocketWrite ==
  /\ \A i \in wsConn.acked : InSeq(i, wsConn.written)
  /\ \A i \in Routed(wsConn) :
       i <= wsConn.cursor => (i \in wsConn.dropped <=> bus[i].msg = NotJSON)
  /\ wsConn.consumer = "exited" => wsConn.inflight = 0
  /\ \A i \in wsConn.requeued : i \notin wsConn.acked /\ ~InSeq(i, wsConn.written)


(***************************************************************************)
(* The same connection late in the crawl: the HTML tier has failed and the *)
(* result is about to be composed.  Every goroutine that can take a step   *)
(* eventually takes one.                                                   *)
(***************************************************************************)
InitLate ==
  MidCrawl("compose", MidCrawlEvents \o <<Ev("tier_switch", "Starting Tier 2"),
                                         Ev("error", "HTML crawling failed")>>)

Compose == \E a \in Addrs : ExecCompose(a)

NextLate ==
  \/ Compose
  \/ Finish
  \/ Publish
  \/ ForeignPublish(idA)
  \/ Handler
  \/ ClientClose
  \/ Reader
  \/ Consumer

FairSocket ==
  /\ InitLate
  /\ [][NextLate]_vars
  /\ WF_vars(Compose \/ Finish)
  /\ WF_vars(Publish)
  /\ WF_vars(Handler)
  /\ WF_vars(Reader)
  /\ WF_vars(Consumer)

\* C20: once a stop signal has been sent, after the client went away or a
\* write to it failed, the consumer goroutine exits and closes the event
\* channel
ConsumerExitsAfterStop ==
  wsConn.stopSent ~> (wsConn.consumer = "exited" /\ wsConn.closed)


\* C27: startup recovery handles each recovered job as its own record: the
\* active-jobs entry under a recovered id leads to a record with that id, and
\* the store write started for it carries that job's own record, failed with
\* the restart error
EachRecoveredOwnRecord ==
  [][LET interrupted == {id \in DOMAIN store : store[id].status = "running"}
         recovery == restartsLeft' < restartsLeft /\ recoveryLog' = "recovered"
     IN recovery =>
          /\ \A k \in interrupted : heap'[ActiveJobs'[k]].id = k
          /\ \A k \in interrupted : Recovered(store[k]) \in recWrites'
          /\ \A job \in recWrites' : job = Recovered(store[job.id])]_vars


\* C25: the write lock of the active-jobs map is held minimally: no executor
\* makes its store round trip (UpdateJobInMongoDB) or publishes its completed
\* event while it write-holds JobsMutex
NoIOUnderWriteLock ==
  [][\A a \in Addrs :
       a <= Len(exec') =>
         /\ (exec[a].pc = "update" /\ exec'[a].pc = "unlock") => JobsMutex # a
         /\ (exec[a].pc = "detail" /\ exec'[a].pc = "update" /\ exec[a].err = "")
              => JobsMutex # a]_vars


(***************************************************************************)
(* The bus channel closes under the crawl that is about to start its HTML  *)
(* tier, while a client connects: the connection to the broker stays       *)
(* usable.  Of the subscriber only the setup of HandleWebSocket is         *)
(* followed, up to the start of the consumer.                              *)
(***************************************************************************)
\* the AMQP channel closes: config.RabbitChannel.IsClosed() from now on
ChannelClose ==
  /\ RabbitChannel = "open"
  /\ RabbitChannel' = "closed"
  /\ UNCHANGED <<regVars, reqVars, envVars, pending, bus, clock, oidCount,
                 postsLeft, restartsLeft>>

Connect ==
  \/ \E ok \in BOOLEAN : WSUpgrade(idA, ok)
  \/ \E ok \in BOOLEAN : CreateJobQueue(ok)
  \/ \E ok \in BOOLEAN : WSGreet(ok)
  \/ \E ok \in BOOLEAN : ConsumeJobEvents(ok)

NextReopen == Tier2 \/ Finish \/ Publish \/ ChannelClose \/ Connect

InitReopen == MidCrawl("tier2", MidCrawlEvents)

SpecReopen == InitReopen /\ [][NextReopen]_vars

\* C26: a bus operation made while the channel is closed re-opens it: an
\* executor's publish, a queue creation and a consume all leave the channel
\* open, so that events published after a close reach the exchange again
BusOperationReopens ==
  [][RabbitChannel = "closed" =>
       /\ \A a \in Addrs :
            (exec[a].pc \in {"tier2", "compose"} /\ exec'[a].pc # exec[a].pc)
              => RabbitChannel' = "open"
       /\ (wsConn.pc = "upgraded" /\ wsConn'.pc = "queued") => RabbitChannel' = "open"
       /\ (wsConn.pc = "greeted" /\ wsConn'.pc = "streaming")
            => RabbitChannel' = "open"]_vars


(***************************************************************************)
(* The tier flags: one job against sites whose sitemap lists nine, ten or  *)
(* no URLs, for every combination of the three flags.  The broker is up    *)
(* and slow: the publish goroutines of the job are started and none has    *)
(* run yet, so that the events the job has published can be read off.      *)
(***************************************************************************)
PageURLs == <<"p1", "p2", "p3", "p4", "p5", "p6", "p7", "p8", "p9", "p10">>

\* a reachable site whose one sitemap lists the first n pages and whose seed
\* page links to one more
SitePages(n) ==
  Site("ok", "ok", <<>>, <<"s1">>,
       [d \in Docs |-> SitemapSet(SubSeq(PageURLs, 1, n))],
       <<"u1">>)

FlagInputs ==
  {Options(0, sm, html, hl) : sm \in BOOLEAN, html \in BOOLEAN, hl \in BOOLEAN}

InitFlags ==
  /\ site \in {SitePages(9), SitePages(10), SiteBare}
  /\ idPool = {idA}
  /\ optPool = FlagInputs
  /\ brokerUp = TRUE
  /\ loopVarShared = FALSE
  /\ postsLeft = 1
  /\ restartsLeft = 0
  /\ InitProcess
  /\ NoConnections
  /\ maxWorkers = MinWorkers
  /\ batchPool = [c \in 1..MaxCalls |-> Arrivals({}, {})]
  /\ callsLeft = 0
  /\ InitializeGlobalPool

SpecFlags == InitFlags /\ [][NextTiers]_vars

\* the job of executor a has published the tier_switch event of that tier
TierRan(a, msg) ==
  \E ev \in pending : ev.job = heap[a].id /\ ev.type = "tier_switch" /\ ev.msg = msg

NoFlag(req) == ~req.enable_sitemap /\ ~req.enable_html /\ ~req.enable_headless

\* C30: for each combination of the three flags, the sitemap tier runs iff
\* enable_sitemap is set or no flag is, the HTML tier runs iff enable_html is
\* set or no flag is and the sitemap tier contributed fewer than ten URLs, and
\* a crawl whose HTML tier did not run returns the sitemap tier's list
TiersFollowFlags ==
  \A a \in Addrs :
    exec[a].result.present =>
      LET req == exec[a].req
          fromSitemaps == removeDuplicateURLs(exec[a].acc)
      IN /\ TierRan(a, "Starting Tier 1") <=> (req.enable_sitemap \/ NoFlag(req))
         /\ TierRan(a, "Starting Tier 2")
              <=> ((req.enable_html \/ NoFlag(req)) /\ Len(fromSitemaps) < 10)
         /\ ~TierRan(a, "Starting Tier 1") => fromSitemaps = <<>>
         /\ ~TierRan(a, "Starting Tier 2") => exec[a].result.URLs = fromSitemaps

\* a crawl with both flags set whose sitemap tier found ten URLs has ended
\* without its HTML tier
TenFromSitemapsAlone ==
  \E a \in Addrs :
    /\ site = SitePages(10)
    /\ exec[a].req.enable_sitemap /\ exec[a].req.enable_html
    /\ exec[a].pc = "done"
    /\ ~TierRan(a, "Starting Tier 2")
    /\ Len(heap[a].result.URLs) = 10


(***************************************************************************)
(* The HTML walker with a working broker and small limits: every event the *)
(* crawl published stays in `pending`, the channel's unsent buffer.         *)
(***************************************************************************)
\* the max_urls values of the walks: negative, absent, and limits that the
\* seed page's links reach and do not reach
WalkLimits == {-1, 0, 2, 3}

WalkInputs == {Options(m, sm, TRUE, FALSE) : m \in WalkLimits, sm \in BOOLEAN}

InitWalk ==
  /\ site \in {SiteOpen, SiteBare, SiteRepeats}
  /\ idPool = {idA}
  /\ optPool = WalkInputs
  /\ brokerUp = TRUE
  /\ loopVarShared = FALSE
  /\ postsLeft = 1
  /\ restartsLeft = 0
  /\ InitProcess
  /\ NoConnections
  /\ maxWorkers = MinWorkers
  /\ batchPool = [c \in 1..MaxCalls |-> Arrivals({}, {})]
  /\ callsLeft = 0
  /\ InitializeGlobalPool

SpecWalk == InitWalk /\ [][NextTiers]_vars

\* the four parts of the walker's bookkeeping, for a walk whose limit is maxURLs
WalkerKeepsLimit(before, after, maxURLs) ==
  /\ Len(after.urlList) <= maxURLs
  /\ \A i, j \in 1..Len(after.urlList) : after.urlList[i] = after.urlList[j] => i = j
  /\ after.stopped <=> Len(after.urlList) = maxURLs
  /\ before.stopped => after.stopped /\ after.urlList = before.urlList

\* C28: while the walker runs, its URL list holds at most max_urls entries and
\* no duplicate, stopped is set exactly when the list reaches max_urls and is
\* never reset, and no link is added once stopped is set
WalkerWithinMaxURLs ==
  [][\A a \in Addrs :
       (a <= Len(exec') /\ exec[a].pc = "walk") =>
         WalkerKeepsLimit(exec[a], exec'[a], exec[a].req.max_urls)]_vars

\* the same for the walks whose max_urls is positive
PositiveWalkerWithinMaxURLs ==
  [][\A a \in Addrs :
       (a <= Len(exec') /\ exec[a].pc = "walk" /\ exec[a].req.max_urls > 0) =>
         WalkerKeepsLimit(exec[a], exec'[a], exec[a].req.max_urls)]_vars

\* a walk with a positive limit has stopped at it with links left over
StoppedAtLimit ==
  \E a \in Addrs :
    /\ exec[a].pc = "walk" /\ exec[a].stopped
    /\ exec[a].links # <<>>
    /\ Len(exec[a].urlList) = exec[a].req.max_urls


\* the url_discovered events the job of executor a has published
Announced(a) ==
  {ev \in pending : ev.job = heap[a].id /\ ev.type = "url_discovered"}

\* C29: every URL on the walker's list was announced by exactly one
\* url_discovered event carrying it, and the walk published as many
\* url_discovered events as its list has entries
EveryURLAnnounced ==
  \A a \in Addrs :
    a <= Len(exec) =>
      /\ \A i \in 1..Len(exec[a].urlList) :
           Cardinality({ev \in Announced(a) : ev.msg = exec[a].urlList[i]}) = 1
      /\ Cardinality(Announced(a)) = Len(exec[a].urlList)


(***************************************************************************)
(* The worker pool with browser scraping, shut down while it serves.       *)
(* Shutdown is an exported method of the pool; here it is called once, at  *)
(* any moment.  The first batch occupies every worker, so that the second  *)
(* takes the reduced-concurrency path; no batch here fills the job channel.*)
(***************************************************************************)
InitHalt ==
  /\ site = SiteDown
  /\ idPool = {}
  /\ optPool = {}
  /\ brokerUp = FALSE
  /\ loopVarShared = FALSE
  /\ postsLeft = 0
  /\ restartsLeft = 0
  /\ InitProcess
  /\ NoConnections
  /\ maxWorkers = MinWorkers
  /\ batchPool = [c \in 1..MaxCalls |->
                    IF c = 1 THEN Arrivals({maxWorkers}, {0})
                    ELSE Arrivals({BatchUnit}, {maxWorkers})]
  /\ callsLeft = MaxCalls
  /\ InitializeGlobalPool

Scrape ==
  \/ \E kind \in Kinds, c \in 1..MaxCalls, ok \in BOOLEAN : TryBrowserScraping(kind, c, ok)
  \/ \E kind \in Kinds, c \in 1..MaxCalls, b \in 1..browserPool.launched :
       ScrapeReturn(kind, c, b)

Shutdown == ShutdownClose \/ WorkerExit \/ ShutdownBrowserPool

NextHalt ==
  \/ \E c \in 1..MaxCalls, n \in BatchSizes : CallProcessContentURLs(c, n)
  \/ \E c \in 1..MaxCalls : Submit(c)
  \/ \E c \in 1..MaxCalls : Collect(c)
  \/ \E c \in 1..MaxCalls : CollectTimeout(c)
  \/ \E c \in 1..MaxCalls : ReducedAcquire(c)
  \/ \E c \in 1..MaxCalls : ReducedFinish(c)
  \/ \E c \in 1..MaxCalls : ReducedReturn(c)
  \/ Workers
  \/ Scrape
  \/ Shutdown

SpecHalt == InitHalt /\ [][NextHalt]_vars


\* the tasks that hold the browser
HoldersOf(browser) ==
  Copies(scrapers.leases, {e \in BagToSet(scrapers.leases) : e[3] = browser})

\* every instance of the pool is in use and the pool is at its cap
AllInUse(bp) ==
  /\ Len(bp.instances) = bp.maxSize
  /\ \A i \in 1..Len(bp.instances) : bp.instances[i].inUse

\* C24: whatever Get, Release and Shutdown calls came before, the pool holds
\* at most maxSize instances and no browser is held by two tasks; a Get made
\* now returns a browser only if it is an idle instance of the pool or newly
\* launched, held by nobody, and marks it in use; and when all maxSize
\* instances are in use it returns "browser pool exhausted" and leaves the
\* pool as it is
BrowserLeasedExclusively ==
  /\ Len(browserPool.instances) <= browserPool.maxSize
  /\ \A b \in 1..browserPool.launched : HoldersOf(b) <= 1
  /\ \A ok \in BOOLEAN :
       LET bp == browserPool
           got == BrowserPoolGet(bp, ok)
           wasIdle == \E i \in 1..Len(bp.instances) :
                        bp.instances[i].browser = got.browser /\ ~bp.instances[i].inUse
           isNew == got.browser = bp.launched + 1 /\ Len(bp.instances) < bp.maxSize
       IN /\ got.err = "" =>
               /\ wasIdle \/ isNew
               /\ HoldersOf(got.browser) = 0
               /\ \E i \in 1..Len(got.pool.instances) :
                    got.pool.instances[i] = BrowserInstance(got.browser)
          /\ AllInUse(bp) <=> got.err = "browser pool exhausted"
          /\ got.err # "" => got.pool = bp

\* every browser of the pool is leased, to two tasks, while a third task is
\* about to ask for one
ExhaustedWhileWanted ==
  /\ AllInUse(browserPool)
  /\ \A i \in 1..Len(browserPool.instances) : HoldersOf(browserPool.instances[i].browser) = 1
  /\ \E kind \in Kinds, c \in 1..MaxCalls : Fresh(kind, c) > 0

\* C22: once every worker has exited, no job that was on the job channel when
\* Shutdown was called is still on it: the channel holds at most the jobs
\* submitted since
ShutdownDrains ==
  (shutdown.pc # "none" /\ shutdown.exited = maxWorkers)
    => Len(jobs) <= Submitted - shutdown.submitted

\* C23: at the step in which Shutdown closes the browser pool, no content
\* task of a worker or of the reduced-concurrency path is inside processURL
\* and no browser is leased
BrowserPoolClosedLast ==
  [][(shutdown.pc = "waiting" /\ shutdown'.pc = "done") =>
       /\ scrapers.leases = EmptyBag
       /\ \A kind \in Kinds, c \in 1..MaxCalls : InProcessURL(kind, c) = 0]_vars


(***************************************************************************)
(* Subscribers of any id the route /ws/{id} accepts: the path segment is   *)
(* taken as it is, so the id may be a job's, another job's, or "*".        *)
(***************************************************************************)
RouteIDs == {idA, idB, Star}

Subscribe == \E id \in RouteIDs, ok \in BOOLEAN : WSUpgrade(id, ok)

NextWild == NextLate \/ Subscribe

SpecWild == InitLate /\ [][NextWild]_vars

\* C21: every event written to the socket of a subscriber of /ws/{id}, and
\* every event waiting in its event channel, carries job_id = id
OnlyOwnJobForwarded ==
  /\ \A k \in 1..Len(wsConn.written) : bus[wsConn.written[k]].job = wsConn.job
  /\ \A k \in 1..Len(wsConn.eventChan) : bus[wsConn.eventChan[k]].job = wsConn.job

\* a subscriber of another job's id has been connected while this job's
\* events were published, and was forwarded nothing
OtherJobHearsNothing ==
  /\ wsConn.job = idB
  /\ wsConn.pc = "streaming"
  /\ Len(bus) > wsConn.boundAt
  /\ wsConn.written = <<>> /\ Queued(wsConn) = {}


\* C34: every run of the sitemap tier ends, whatever the site's sitemap
\* documents reference: the ParseSitemap calls of an executor all return
ParseSitemapTerminates ==
  \A a \in 1..MaxPosts :
    (a \in Addrs /\ exec[a].pc = "parse") ~> (a \in Addrs /\ exec[a].pc # "parse")


(***************************************************************************)
(* The content extractor.  A page is what each strategy would obtain for   *)
(* one URL; Markdown is kept as its trimmed length and an error message as *)
(* the sequence of the parts it is concatenated from.                      *)
(***************************************************************************)

\* processURL takes tier 1's response only above this trimmed length
MinContent == 100

Lengths == {MinContent, MinContent + 1}

Failed == [ok |-> FALSE, len |-> 0]

Obtained(n) == [ok |-> TRUE, len |-> n]

Outcomes == {Failed} \cup {Obtained(n) : n \in Lengths}

\* the answers to the plain GET: no answer (status 0), blocked, or a body
HTTPAnswers ==
  {[status |-> st, len |-> 0] : st \in {0, 403, 429}}
    \cup {[status |-> 200, len |-> n] : n \in Lengths}

\* accessible: FindAccessibleURL succeeds; jsdom: tryJSDOMRendering; http: the
\* plain GET; lease: the error of browserPool.Get(); pooled:
\* scrapeWithPooledBrowser; aggressive: tryAggressiveHTTP
Pages ==
  [accessible : BOOLEAN, jsdom : Outcomes, http : HTTPAnswers,
   lease : {"", "browser pool exhausted"}, pooled : Outcomes, aggressive : Outcomes]

ContentResponse(by, status, len, err) ==
  [ScrapedWith |-> by, StatusCode |-> status, Markdown |-> len, Error |-> err]

\* a strategy's return: the response and the strategies it went through
Tried(response, tried) == [response |-> response, tried |-> tried]

\* the part of tryAggressiveHTTP's error that processURL looks for
BrowserNotAvailable == "browser not available"

Contains(error, part) == \E k \in 1..Len(error) : error[k] = part

tryAggressiveHTTP(page) ==
  IF page.aggressive.ok
  THEN ContentResponse("Aggressive-HTTP", 200, page.aggressive.len, <<>>)
  ELSE ContentResponse("", 0, 0, <<BrowserNotAvailable>>)

tryHTMLScraping(page) ==
  IF ~page.accessible
  THEN Tried(ContentResponse("", 0, 0, <<"not accessible">>), <<>>)
  ELSE IF page.jsdom.ok
  THEN Tried(ContentResponse("JSDOM-Tier1", 200, page.jsdom.len, <<>>), <<"jsdom">>)
  ELSE IF page.http.status = 0
  THEN Tried(ContentResponse("", 0, 0, <<"Failed to fetch URL">>), <<"jsdom", "http">>)
  ELSE IF page.http.status \in {403, 429}
  THEN Tried(ContentResponse("", 0, 0, <<"blocked by server, trying browser fallback">>),
             <<"jsdom", "http">>)
  ELSE Tried(ContentResponse("site", page.http.status, page.http.len, <<>>),
             <<"jsdom", "http">>)

tryBrowserScraping(page) ==
  IF page.lease # ""
  THEN Tried(ContentResponse("", 0, 0, <<"Failed to get browser from pool", page.lease>>),
             <<>>)
  ELSE IF ~page.pooled.ok
  THEN LET aggressiveResponse == tryAggressiveHTTP(page)
       IN  IF aggressiveResponse.Error = <<>>
           THEN Tried(aggressiveResponse, <<"browser", "aggressive">>)
           ELSE Tried(ContentResponse("", 0, 0,
                                      <<"Browser scraping failed">> \o aggressiveResponse.Error),
                      <<"browser", "aggressive">>)
  ELSE Tried(ContentResponse("Browser", 200, page.pooled.len, <<>>), <<"browser">>)

\* processURL, from the outcomes of its strategies
ProcessURLTiered(page) ==
  LET html == tryHTMLScraping(page)
      browser == tryBrowserScraping(page)
      htmlResponse == html.response
      browserResponse == browser.response
  IN  IF htmlResponse.Error = <<>> /\ htmlResponse.Markdown > MinContent
      THEN html
      ELSE IF browserResponse.Error = <<>>
      THEN Tried(browserResponse, html.tried \o browser.tried)
      ELSE IF htmlResponse.Error # <<>>
      THEN Tried([htmlResponse EXCEPT
                    !.Error = IF Contains(browserResponse.Error, BrowserNotAvailable)
                              THEN @ \o <<"Browser fallback unavailable">>
                              ELSE @ \o <<"Browser fallback also failed">>
                                     \o browserResponse.Error],
                 html.tried \o browser.tried)
      ELSE Tried(browserResponse, html.tried \o browser.tried)

ExtractFrame == <<regVars, reqVars, busVars, worldVars, bootVars, poolVars, connVars,
                  oidCount, postsLeft, restartsLeft>>

\* a content task calls processURL for a URL
ProcessURLCall(page) ==
  /\ extraction.pc \in {"idle", "returned"}
  /\ extraction' = [pc |-> "called", page |-> page]
  /\ UNCHANGED ExtractFrame

\* tryJSDOMRendering launches a Chromium of its own and connects to it
JSDOMLaunch ==
  /\ extraction.pc = "called"
  /\ extraction.page.accessible
  /\ extraction' = [extraction EXCEPT !.pc = "rendering"]
  /\ UNCHANGED ExtractFrame

\* processURL returns; the browser tryJSDOMRendering launched is closed by then
ProcessURLReturn ==
  /\ \/ extraction.pc = "rendering"
     \/ /\ extraction.pc = "called"
        /\ ~(extraction.page.accessible /\ extraction.page.jsdom.ok)
  /\ extraction' = [pc |-> "returned", page |-> extraction.page,
                    response |-> ProcessURLTiered(extraction.page).response,
                    tried |-> ProcessURLTiered(extraction.page).tried]
  /\ UNCHANGED ExtractFrame

NextExtract ==
  \/ \E page \in Pages : ProcessURLCall(page)
  \/ JSDOMLaunch
  \/ ProcessURLReturn

SpecExtract == Init /\ [][NextExtract]_vars

\* what a strategy obtains for the page when it is tried
StrategyOrder == <<"jsdom", "http", "browser", "aggressive">>

Yield(page, strategy) ==
  CASE strategy = "jsdom" -> IF page.accessible /\ page.jsdom.ok THEN page.jsdom.len ELSE 0
    [] strategy = "http" -> IF page.accessible /\ page.http.status = 200 THEN page.http.len ELSE 0
    [] strategy = "browser" -> IF page.lease = "" /\ page.pooled.ok THEN page.pooled.len ELSE 0
    [] strategy = "aggressive" -> IF page.aggressive.ok THEN page.aggressive.len ELSE 0

ScrapedWithOf(strategy) ==
  CASE strategy = "jsdom" -> "JSDOM-Tier1"
    [] strategy = "http" -> "site"
    [] strategy = "browser" -> "Browser"
    [] strategy = "aggressive" -> "Aggressive-HTTP"

\* C31: processURL returns the result of the first strategy, in the order
\* rendered fetch, plain GET, pooled browser, aggressive HTTP, that obtains
\* more than 100 characters of Markdown
FirstSufficientStrategyReturned ==
  extraction.pc = "returned" =>
    \A k \in 1..Len(StrategyOrder) :
      (/\ Yield(extraction.page, StrategyOrder[k]) > MinContent
       /\ \A j \in 1..(k - 1) : Yield(extraction.page, StrategyOrder[j]) <= MinContent)
      => /\ extraction.response.Error = <<>>
         /\ extraction.response.ScrapedWith = ScrapedWithOf(StrategyOrder[k])
         /\ extraction.response.Markdown = Yield(extraction.page, StrategyOrder[k])

\* C32: a response carries an error only when every strategy that was tried
\* for the URL failed, and an exhausted browser pool moves on to aggressive
\* HTTP
ErrorOnlyWhenEveryTierFailed ==
  extraction.pc = "returned" =>
    /\ extraction.response.Error # <<>> =>
         \A k \in 1..Len(extraction.tried) : Yield(extraction.page, extraction.tried[k]) = 0
    /\ (/\ extraction.page.lease # ""
        /\ tryHTMLScraping(extraction.page).response.Markdown <= MinContent) =>
         \E k \in 1..Len(extraction.tried) : extraction.tried[k] = "aggressive"


\* pages whose every strategy but the JSDOM render fails
RenderPages ==
  {page \in Pages : /\ page.accessible
                    /\ page.http.status = 0
                    /\ page.lease = ""
                    /\ page.pooled = Failed
                    /\ page.aggressive = Failed}

\* one batch of maxWorkers URLs on a fresh pool
InitRender ==
  /\ site = SiteDown
  /\ idPool = {}
  /\ optPool = {}
  /\ brokerUp = FALSE
  /\ loopVarShared = FALSE
  /\ postsLeft = 0
  /\ restartsLeft = 0
  /\ InitProcess
  /\ NoConnections
  /\ maxWorkers = MinWorkers
  /\ batchPool = [c \in 1..MaxCalls |->
                    IF c = 1 THEN Arrivals({maxWorkers}, {0}) ELSE Arrivals({}, {})]
  /\ callsLeft = 1
  /\ InitializeGlobalPool

\* the observed processURL call is the one of a content task that is not in
\* the browser tier
Rendering == \E kind \in Kinds, c \in 1..MaxCalls : Fresh(kind, c) > 0

NextRender ==
  \/ \E c \in 1..MaxCalls, n \in BatchSizes : CallProcessContentURLs(c, n)
  \/ \E c \in 1..MaxCalls : Submit(c)
  \/ \E c \in 1..MaxCalls : Collect(c)
  \/ Workers
  \/ Scrape
  \/ \E page \in RenderPages : Rendering /\ ProcessURLCall(page)
  \/ JSDOMLaunch
  \/ ProcessURLReturn

SpecRender == InitRender /\ [][NextRender]_vars

\* the headless browser processes alive: the instances of the browser pool
\* and the one the JSDOM render of a content task launched
LiveBrowsers ==
  Len(browserPool.instances)
    + (IF extraction.pc = "rendering" /\ Rendering THEN 1 ELSE 0)

\* C39: the live headless browsers are those of the browser pool and never
\* more than its cap of maxWorkers/2
BrowsersWithinPoolCap ==
  /\ extraction.pc = "rendering" => Len(browserPool.instances) = LiveBrowsers
  /\ LiveBrowsers <= maxWorkers \div PoolShare


\* the processURL calls executing for the calls 1..c: those of the workers'
\* jobs and those of the goroutines of the reduced-concurrency path
RECURSIVE Extracting(_)
Extracting(c) ==
  IF c = 0 THEN 0
  ELSE InProcessURL("worker", c) + InProcessURL("reduced", c) + Extracting(c - 1)

\* C38: at most maxWorkers content extractions execute at the same time
ExtractionsWithinMaxWorkers == Extracting(MaxCalls) <= maxWorkers


\* C33: the first frame a connection gets is the connected message, and
\* the frames after it are the forwarded events, in the order they were
\* received, with their type, job, payload, timestamp and tier unchanged
ConnectedThenEventsUnchanged ==
  wsConn.frames # <<>> =>
    /\ wsConn.frames[1].Type = "connected"
    /\ \A k \in 1..Len(wsConn.written) :
         LET event == bus[wsConn.written[k]]
             frame == wsConn.frames[k + 1]
         IN  /\ frame.Type = event.type
             /\ frame.JobID = event.job
             /\ frame.Text = event.msg
             /\ frame.Timestamp = event.ts
             /\ frame.Tier = event.tier
    /\ \A k \in 1..(Len(wsConn.written) - 1) : wsConn.written[k] < wsConn.written[k + 1]


\* the completed events of the job id that reached the exchange
CompletedEvents(id) == {i \in EventsOf(id) : bus[i].type = "completed"}

\* C35: a job that ends completed has one completed event published for it,
\* never a second one, and a job that ends failed has none
OneCompletedEvent ==
  \A id \in DOMAIN ActiveJobs :
    LET job == heap[ActiveJobs[id]]
    IN  /\ job.status = "completed" => Cardinality(CompletedEvents(id)) <= 1
        /\ job.status = "failed" => CompletedEvents(id) = {}


\* a reachable site whose one sitemap does not parse
SiteBroken ==
  Site("ok", "ok", <<>>, <<"s1">>, [d \in Docs |-> Unparsable], <<"u1", "u2">>)

\* one crawl with the broker up, over sites whose tiers fail or succeed
InitMishap ==
  /\ site \in {SiteBroken, SiteBlocked, SiteOpen, SiteDown}
  /\ idPool = {idA}
  /\ optPool = {Options(0, sm, html, TRUE) : sm \in BOOLEAN, html \in BOOLEAN}
  /\ brokerUp = TRUE
  /\ loopVarShared = FALSE
  /\ postsLeft = 1
  /\ restartsLeft = 0
  /\ InitProcess
  /\ NoConnections
  /\ maxWorkers = MinWorkers
  /\ batchPool = [c \in 1..MaxCalls |-> Arrivals({}, {})]
  /\ callsLeft = 0
  /\ InitializeGlobalPool

SpecMishap == InitMishap /\ [][NextTiers]_vars

\* the events PublishCrawlEvent handed to the broker: those whose publish
\* goroutine is still to run and those on the exchange
Published == pending \cup {bus[i] : i \in 1..Len(bus)}

\* C36: a job for which an error event has been published does not end
\* completed and gets no completed event
ErrorEventIsTerminal ==
  \A id \in DOMAIN ActiveJobs :
    (\E ev \in Published : ev.job = id /\ ev.type = "error") =>
      /\ heap[ActiveJobs[id]].status # "completed"
      /\ \A ev \in Published : ev.job = id => ev.type # "completed"


\* the frames of the connection that carry a completed or error event
TerminalFrames ==
  {k \in 1..Len(wsConn.written) : bus[wsConn.written[k]].type \in {"completed", "error"}}

\* C37: a subscriber receives a terminal event of its job whenever it
\* connected: once the job is over, a terminal event of it is on the
\* exchange and the connection has nothing left to forward, a completed or
\* error event has been written to the client
SubscriberGetsTerminal ==
  (/\ SocketQuiet
   /\ \E i \in EventsOf(wsConn.job) : bus[i].type \in {"completed", "error"})
    => TerminalFrames # {}


\* C40: when the store answers the executor's write of a job's terminal
\* state, the store holds the job's record afterwards, with the status the
\* registry has for it
StoreMirrorsTerminalState ==
  [][\A a \in 1..MaxPosts :
       (a \in Addrs /\ ExecStoreUpdate(a, TRUE)) =>
         /\ heap[a].id \in DOMAIN store'
         /\ store'[heap[a].id].status = heap[a].status]_vars

=============================================================================
